---- MODULE Spec2Model ----
(***************************************************************************)
(* A model of the SMT layer of BARF:                                       *)
(*   - the solver supervisors Z3Solver / CVC4Solver of                     *)
(*     barf/core/smt/smtlibv2.py together with the solver subprocess they  *)
(*     drive over a pipe (specification Spec), and                         *)
(*   - the REIL-to-SMT translator of barf/core/smt/smttranslator.py        *)
(*     (specification SpecTr).                                             *)
(***************************************************************************)
EXTENDS Integers, Sequences, FiniteSets, TLC

(***************************************************************************)
(* Bounds of the model.                                                    *)
(***************************************************************************)
MaxStack == 2      \* deepest push() nesting the user performs
MaxCons == 2       \* longest constraint list the user builds with add()
MaxSid == 1        \* most identifiers handed out by _get_sid
MaxPipe == 1       \* most unread replies left in the solver's stdout pipe
MaxStores == 1     \* most in-place stores into one Array object
MaxCnt == 2        \* largest maxcnt given to getallvalues
MaxVersion == 2    \* highest version a register or temporary reaches
MaxMem == 1        \* highest memory version MEM_k

VARIABLES
    kind,          \* "z3" (Z3Solver) or "cvc4" (CVC4Solver)
    unknownOk,     \* whether this solver build may answer "unknown"
    status,        \* self._status
    sid,           \* self._sid
    stack,         \* self._stack
    declarations,  \* self._declarations  (name -> symbol)
    constraints,   \* self._constraints
    arrays,        \* the Array objects the declaration maps refer to
    proc,          \* self._proc: the solver's scopes and its unread output
    saved,         \* history: the state as it was at each open push()
    lastOp,        \* history: the last call and its arguments
    lastRet,       \* history: what the last call returned or raised
    lastSent,      \* history: the commands the last call wrote to the pipe
    arch,              \* which alias mapper and register sizes the translator was given
    var_name_mappers,  \* SmtTranslator._var_name_mappers (base name -> version)
    mem_instance,      \* SmtTranslator._mem_instance
    mem_curr,          \* SmtTranslator._mem_curr (the name of the array object)
    tdecls,            \* the declarations of the translator's solver (name -> object)
    trLast,            \* history: the last translation, its result, the versions before it
    emitted,           \* history: the variable names in the assertions returned so far
    run,               \* the emulator call in progress: "idle", "execute", "execute_lite",
                       \* "done", or the fault it raised
    container,         \* the ReilContainer (or the instruction list) being executed
    registers,         \* ReilEmulator registers (name -> value)
    memory,            \* ReilEmulator memory (address -> byte)
    ip,                \* the IR program counter, <<>> when there is no next address
    handlers,          \* the registered pre- and post-handler parameters
    calls,             \* history: the handler calls made, in order
    emLast             \* history: the last IR instruction executed and its outcome

solverVars == <<kind, unknownOk, status, sid, stack, declarations, constraints,
                arrays, proc, saved, lastOp, lastRet, lastSent>>

trVars == <<arch, var_name_mappers, mem_instance, mem_curr, tdecls, trLast, emitted>>

emuVars == <<run, container, registers, memory, ip, handlers, calls, emLast>>

vars == <<solverVars, trVars, emuVars>>

(***************************************************************************)
(* Small helpers.                                                          *)
(***************************************************************************)
Last(s) == s[Len(s)]

\* An intermediate result is bound with
\*     CHOOSE it \in {body : x \in {v}} : TRUE
\* which is body with x standing for the value of v, computed once.  Bindings
\* that follow one another in the code are nested, the first one outermost,
\* so they read from the last line upwards.

Front(s) == SubSeq(s, 1, Len(s) - 1)

Range(s) == {s[i] : i \in 1..Len(s)}

RECURSIVE SetToSeq(_)
SetToSeq(S) ==
    IF S = {} THEN <<>>
    ELSE LET x == CHOOSE y \in S : TRUE IN <<x>> \o SetToSeq(S \ {x})

(***************************************************************************)
(* Symbols and constraints.  A BitVec of size 1 takes the values 0 and 1.  *)
(***************************************************************************)
BvNames == {"V", "x"}
BoolNames == {"B"}
ArrNames == {"A"}
ArrKeys == {0}
ArrVals == {1}

BitVecSym(size, name) == [kind |-> "BitVec", name |-> name, size |-> size]
BoolSym(name) == [kind |-> "Bool", name |-> name, size |-> 0]
ArraySym(size, name) == [kind |-> "Array", name |-> name, size |-> size]
NoSym == [kind |-> "none", name |-> "", size |-> 0]

NoCon == [op |-> "none", a |-> "", b |-> "", val |-> 0]
EqC(n, c) == [op |-> "eqc", a |-> n, b |-> "", val |-> c]
NeC(n, c) == [op |-> "nec", a |-> n, b |-> "", val |-> c]
EqV(n, m) == [op |-> "eqv", a |-> n, b |-> m, val |-> 0]

\* A Python bool given where a constraint is expected.
BoolCon(b) == [op |-> "bool", a |-> "", b |-> "", val |-> IF b THEN 1 ELSE 0]

ConVars(c) == IF c.op = "eqv" THEN {c.a, c.b} ELSE {c.a}

\* The constraints the user asserts.
UserCons == {EqC("x", 0), EqC("x", 1), EqC("V", 1)}

BvDomain == {0, 1}
Assignments == [BvNames -> BvDomain]

Holds(c, asg) ==
    CASE c.op = "eqc" -> asg[c.a] = c.val
      [] c.op = "nec" -> asg[c.a] # c.val
      [] c.op = "eqv" -> asg[c.a] = asg[c.b]
      [] OTHER -> TRUE

Models(cs) == {asg \in Assignments : \A i \in 1..Len(cs) : Holds(cs[i], asg)}

Feasible(cs, n) == {asg[n] : asg \in Models(cs)}

(***************************************************************************)
(* The solver subprocess: a stack of scopes, each with the names declared  *)
(* and the assertions made in it, and the replies it has written that the  *)
(* supervisor has not read yet.                                            *)
(***************************************************************************)
EmptyScope == [decls |-> {}, asserts |-> <<>>]

NewProc == [scopes |-> <<EmptyScope>>, out |-> <<>>]

Cmd(c, n, k) == [cmd |-> c, name |-> n, con |-> k]

StatusReply(s) == [t |-> "status", s |-> s, digits |-> <<>>]
ErrorReply == [t |-> "error", s |-> "(error", digits |-> <<>>]
ValueReply(n, v) == [t |-> "value", s |-> n, digits |-> <<v>>]

Declared(P) == UNION {P.scopes[i].decls : i \in 1..Len(P.scopes)}

RECURSIVE Flatten(_)
Flatten(scopes) ==
    IF scopes = <<>> THEN <<>>
    ELSE Flatten(Front(scopes)) \o Last(scopes).asserts

Asserted(P) == Flatten(P.scopes)

Err(P) == [P EXCEPT !.out = Append(@, ErrorReply)]

\* The commands that are answered only when they fail.
Exec(P, c) ==
    CASE c.cmd = "declare-fun" ->
            IF c.name \in Declared(P) THEN Err(P)
            ELSE [P EXCEPT !.scopes[Len(P.scopes)].decls = @ \cup {c.name}]
      [] c.cmd = "assert" ->
            IF ConVars(c.con) \subseteq Declared(P)
            THEN [P EXCEPT !.scopes[Len(P.scopes)].asserts = Append(@, c.con)]
            ELSE Err(P)
      [] c.cmd = "push" -> [P EXCEPT !.scopes = Append(@, EmptyScope)]
      [] c.cmd = "pop" ->
            IF Len(P.scopes) > 1 THEN [P EXCEPT !.scopes = Front(@)] ELSE Err(P)
      [] c.cmd = "reset" -> [P EXCEPT !.scopes = <<EmptyScope>>]
      [] OTHER -> P

\* The answers the solver may give to (check-sat).
CheckSatAnswers(P, unk) ==
    {IF Models(Asserted(P)) # {} THEN "sat" ELSE "unsat"}
        \cup (IF unk THEN {"unknown"} ELSE {})

\* The answers the solver may give to (get-value (n)).
GetValueAnswers(P, n) ==
    IF n \in Declared(P) /\ Models(Asserted(P)) # {}
    THEN {ValueReply(n, v) : v \in Feasible(Asserted(P), n)}
    ELSE {ErrorReply}

(***************************************************************************)
(* The supervisor.  Its operations are written as functions of the record  *)
(* S of its fields, so that getallvalues can call the others.              *)
(***************************************************************************)
RetNone == [kind |-> "none", s |-> "", sym |-> NoSym, vals |-> <<>>]
RetStatus(s) == [kind |-> "status", s |-> s, sym |-> NoSym, vals |-> <<>>]
RetSym(y) == [kind |-> "sym", s |-> "", sym |-> y, vals |-> <<>>]
RetInt(v) == [kind |-> "int", s |-> "", sym |-> NoSym, vals |-> <<v>>]
RetList(vs) == [kind |-> "list", s |-> "", sym |-> NoSym, vals |-> vs]
Raise(what) == [kind |-> "raise", s |-> what, sym |-> NoSym, vals |-> <<>>]

Out(S, r) == [S |-> S, ret |-> r]

EmptyMap == [n \in {} |-> NoSym]

Put(d, n, y) == (n :> y) @@ d

Send(S, c) == [S EXCEPT !.proc = Exec(@, c), !.sent = Append(@, c)]

RECURSIVE SendAll(_, _)
SendAll(S, cs) == IF cs = <<>> THEN S ELSE SendAll(Send(S, cs[1]), Tail(cs))

\* str(self): the declarations, then the constraints.
SelfStr(S) ==
    LET names == SetToSeq(DOMAIN S.decls)
    IN  [i \in 1..Len(names) |-> Cmd("declare-fun", names[i], NoCon)]
        \o [i \in 1..Len(S.cons) |-> Cmd("assert", "", S.cons[i])]

Cleared(S) ==
    [S EXCEPT !.status = "unknown", !.sid = 0, !.stack = <<>>,
              !.decls = EmptyMap, !.cons = <<>>]

Z3Options == <<Cmd("set-option", ":global-decls", NoCon), Cmd("set-logic", "QF_AUFBV", NoCon)>>

CVC4Options == <<Cmd("set-logic", "QF_AUFBV", NoCon), Cmd("set-option", ":produce-models", NoCon)>>

Z3Reset(S, full) ==
    LET S1 == SendAll(Send(S, Cmd("reset", "", NoCon)), Z3Options)
        S2 == IF full
              THEN SendAll([Cleared(S1) EXCEPT !.proc = NewProc], Z3Options)
              ELSE S1
        S3 == SendAll(S2, SelfStr(S2))
    IN  [S3 EXCEPT !.status = "unknown"]

CVC4Reset(S, full) ==
    LET S1 == [S EXCEPT !.proc = NewProc]
        S2 == IF full THEN Cleared(S1) ELSE S1
        S3 == SendAll(S2, CVC4Options)
        S4 == SendAll(S3, SelfStr(S3))
    IN  [S4 EXCEPT !.status = "unknown"]

\* A reset() that does not send str(self) to the new solver state.
DoResetNoReplay(k, S, full) ==
    LET S1 == [S EXCEPT !.proc = NewProc, !.sent = Append(@, Cmd("reset", "", NoCon))]
    IN  [IF full THEN Cleared(S1) ELSE S1 EXCEPT !.status = "unknown"]

DoReset(k, S, full) == IF k = "z3" THEN Z3Reset(S, full) ELSE CVC4Reset(S, full)

DoPush(S) ==
    LET S1 == Send(S, Cmd("push", "", NoCon))
    IN  [S1 EXCEPT !.stack = Append(@, [sid |-> S.sid, decls |-> S.decls, cons |-> S.cons])]

DoPop(S) ==
    LET S1 == Send(S, Cmd("pop", "", NoCon))
    IN  IF S1.stack = <<>> THEN Out(S1, Raise("IndexError"))
        ELSE Out([S1 EXCEPT !.sid = Last(S.stack).sid,
                            !.decls = Last(S.stack).decls,
                            !.cons = Last(S.stack).cons,
                            !.stack = Front(@),
                            !.status = "unknown"], RetNone)

\* The text _recv hands back for a reply that is no error.
ReplyText(h) == IF h.t = "status" THEN h.s ELSE "(("

\* self._send('(check-sat)'); self._status = self._recv()
Query(S, unk) ==
    { LET P1 == [S.proc EXCEPT !.out = Append(@, StatusReply(r))]
          h  == Head(P1.out)
          S1 == [S EXCEPT !.proc = [P1 EXCEPT !.out = Tail(@)],
                          !.sent = Append(@, Cmd("check-sat", "", NoCon))]
      IN  IF h.t = "error" THEN Out(S1, Raise("Error in smtlib"))
          ELSE Out([S1 EXCEPT !.status = ReplyText(h)], RetStatus(ReplyText(h)))
      : r \in CheckSatAnswers(S.proc, unk) }

\* A check() that asks the solver on every call.
DoCheckUncached(S, unk) == Query(S, unk)

DoCheck(S, unk) ==
    IF S.status = "unknown" THEN Query(S, unk) ELSE {Out(S, RetStatus(S.status))}

RECURSIVE ParseDigits(_, _)
ParseDigits(ds, base) ==
    IF ds = <<>> THEN 0 ELSE ParseDigits(Front(ds), base) * base + Last(ds)

\* Z3Solver.getvalue reads the digits as hexadecimal, CVC4Solver.getvalue as decimal.
ParseValue(k, h) == IF k = "z3" THEN ParseDigits(h.digits, 16) ELSE ParseDigits(h.digits, 10)

DoGetValue(k, S, n, unk) ==
    UNION { IF o.ret.kind = "raise" THEN {o}
            ELSE IF o.ret.s # "sat" THEN {Out(o.S, Raise("AssertionError"))}
            ELSE { LET P1 == [o.S.proc EXCEPT !.out = Append(@, a)]
                       h  == Head(P1.out)
                       S1 == [o.S EXCEPT !.proc = [P1 EXCEPT !.out = Tail(@)],
                                         !.sent = Append(@, Cmd("get-value", n, NoCon))]
                   IN  IF h.t = "error" THEN Out(S1, Raise("Error in smtlib"))
                       ELSE IF h.t # "value" THEN Out(S1, Raise("AssertionError"))
                       ELSE Out(S1, RetInt(ParseValue(k, h)))
                   : a \in GetValueAnswers(o.S.proc, n) }
          : o \in DoCheck(S, unk) }

DoMkBitVec(S, size, name) ==
    IF name \in DOMAIN S.decls THEN Out(S, RetSym(S.decls[name]))
    ELSE LET bv == BitVecSym(size, name)
         IN  Out(Send([S EXCEPT !.decls = Put(@, name, bv)],
                      Cmd("declare-fun", name, NoCon)), RetSym(bv))

DoMkArray(S, size, name) ==
    IF name \in DOMAIN S.decls THEN Out(S, RetSym(S.decls[name]))
    ELSE LET arr == ArraySym(size, name)
         IN  Out(Send([S EXCEPT !.decls = Put(@, name, arr)],
                      Cmd("declare-fun", name, NoCon)), RetSym(arr))

\* '%s_%d' % (name, self._get_sid())
Suffixed(name, k) == name \o "_" \o ToString(k)

DoMkBool(S, name) ==
    LET clash == name \in DOMAIN S.decls
        sid1  == IF clash THEN S.sid + 1 ELSE S.sid
        name1 == IF clash THEN Suffixed(name, sid1) ELSE name
        b     == BoolSym(name1)
    IN  Out(Send([S EXCEPT !.sid = sid1, !.decls = Put(@, name1, b)],
                 Cmd("declare-fun", name1, NoCon)), RetSym(b))

\* add(constraint) with a Bool expression.
DoAdd(S, c) ==
    [Send(S, Cmd("assert", "", c)) EXCEPT !.cons = Append(@, c), !.status = "unknown"]

\* add(constraint) with a Python bool.
DoAddBool(S, b) == IF b THEN S ELSE [S EXCEPT !.status = "unsat"]

\* The loop of getallvalues, entered with the answer r of the last check().
RECURSIVE AllValuesLoop(_, _, _, _, _, _, _, _)
AllValuesLoop(k, S, r, result, x, aux, maxcnt, unk) ==
    IF r = "unsat" THEN {Out(S, RetList(result))}
    ELSE UNION {
        IF g.ret.kind = "raise" THEN {g}
        ELSE LET val  == g.ret.vals[1]
                 res1 == Append(result, val)
                 S1   == DoAdd(g.S, NeC(x, val))
             IN  UNION { IF c.ret.kind = "raise" THEN {c}
                         ELSE IF Len(res1) > maxcnt
                              THEN {Out(c.S, Raise("Max number of different solutions hit"))}
                              ELSE AllValuesLoop(k, c.S, c.ret.s, res1, x, aux, maxcnt, unk)
                       : c \in DoCheck(S1, unk) }
        : g \in DoGetValue(k, S, aux, unk) }

\* The body of the try block of getallvalues.
AllValuesTry(k, S, x, maxcnt, unk) ==
    LET mk  == DoMkBitVec(S, S.decls[x].size, "V")
        aux == mk.ret.sym
    IN  IF aux.size # S.decls[x].size THEN {Out(mk.S, Raise("AssertionError"))}
        ELSE LET S1 == DoAdd(mk.S, EqV(aux.name, x))
             IN  UNION { IF c.ret.kind = "raise" THEN {c}
                         ELSE AllValuesLoop(k, c.S, c.ret.s, <<>>, x, aux.name, maxcnt, unk)
                       : c \in DoCheck(S1, unk) }

\* A getallvalues whose pop() is reached only when the try block returns.
DoGetAllValuesNoFinally(k, S, x, maxcnt, unk) ==
    UNION { IF o.ret.kind = "raise" THEN {o}
            ELSE IF o.ret.s # "sat" THEN {Out(o.S, Raise("AssertionError"))}
            ELSE { IF t.ret.kind = "raise" THEN t ELSE Out(DoPop(t.S).S, t.ret)
                   : t \in AllValuesTry(k, DoPush(o.S), x, maxcnt, unk) }
          : o \in DoCheck(S, unk) }

DoGetAllValues(k, S, x, maxcnt, unk) ==
    UNION { IF o.ret.kind = "raise" THEN {o}
            ELSE IF o.ret.s # "sat" THEN {Out(o.S, Raise("AssertionError"))}
            ELSE { LET fin == DoPop(t.S)
                   IN  IF fin.ret.kind = "raise" THEN fin ELSE Out(fin.S, t.ret)
                   : t \in AllValuesTry(k, DoPush(o.S), x, maxcnt, unk) }
          : o \in DoCheck(S, unk) }

(***************************************************************************)
(* The calls a user of the supervisor makes.                               *)
(***************************************************************************)
Cur == [status |-> status, sid |-> sid, stack |-> stack, decls |-> declarations,
        cons |-> constraints, proc |-> proc, sent |-> <<>>]

Op(o, n, c, k) == [op |-> o, name |-> n, con |-> c, n |-> k, feas |-> {}]

\* An Array object: the stores made into self.array; self.cache holds the
\* selects made since the last store.
NoObj == [array |-> <<>>, cache |-> {}]

\* The declaration map with the array objects it refers to.
Deep(decls, objs) ==
    [n \in DOMAIN decls |->
        [sym |-> decls[n], obj |-> IF decls[n].kind = "Array" THEN objs[n] ELSE NoObj]]

Snapshot == [sid |-> sid, decls |-> Deep(declarations, arrays), cons |-> constraints]

ArraysOf(decls) == {n \in DOMAIN decls : decls[n].kind = "Array"}

BitVecsOf(decls) == {n \in DOMAIN decls : decls[n].kind = "BitVec"}

Install(S, op, ret) ==
    /\ status' = S.status
    /\ sid' = S.sid
    /\ stack' = S.stack
    /\ declarations' = S.decls
    /\ constraints' = S.cons
    /\ proc' = S.proc
    /\ Len(S.proc.out) <= MaxPipe
    /\ lastSent' = S.sent
    /\ lastOp' = op
    /\ lastRet' = ret
    /\ UNCHANGED <<kind, unknownOk>>
    /\ UNCHANGED <<trVars, emuVars>>

\* Array objects no declaration map refers to any more are dropped.
Collect(decls) == arrays' = [n \in ArraysOf(decls) |-> arrays[n]]

Push ==
    /\ Len(stack) < MaxStack
    /\ Install(DoPush(Cur), Op("push", "", NoCon, 0), RetNone)
    /\ saved' = Append(saved, Snapshot)
    /\ UNCHANGED arrays

Pop ==
    LET o == DoPop(Cur)
    IN  /\ Install(o.S, Op("pop", "", NoCon, 0), o.ret)
        /\ saved' = IF saved = <<>> THEN saved ELSE Front(saved)
        /\ Collect(o.S.decls)

Check ==
    \E o \in DoCheck(Cur, unknownOk) :
        /\ Install(o.S, Op("check", "", NoCon, 0), o.ret)
        /\ UNCHANGED <<saved, arrays>>

Add(c) ==
    /\ Len(constraints) < MaxCons
    /\ ConVars(c) \subseteq BitVecsOf(declarations)
    /\ Install(DoAdd(Cur, c), Op("add", "", c, 0), RetNone)
    /\ UNCHANGED <<saved, arrays>>

AddBool(b) ==
    /\ Install(DoAddBool(Cur, b), Op("add", "", BoolCon(b), 0), RetNone)
    /\ UNCHANGED <<saved, arrays>>

MkBitVec(name) ==
    LET o == DoMkBitVec(Cur, 1, name)
    IN  /\ Install(o.S, Op("mkBitVec", name, NoCon, 1), o.ret)
        /\ UNCHANGED <<saved, arrays>>

MkBool(name) ==
    LET o == DoMkBool(Cur, name)
    IN  /\ o.S.sid <= MaxSid
        /\ Install(o.S, Op("mkBool", name, NoCon, 0), o.ret)
        /\ UNCHANGED <<saved, arrays>>

MkArray(name) ==
    LET o == DoMkArray(Cur, 32, name)
    IN  /\ Install(o.S, Op("mkArray", name, NoCon, 32), o.ret)
        /\ arrays' = IF name \in DOMAIN declarations THEN arrays
                     ELSE Put(arrays, name, NoObj)
        /\ UNCHANGED saved

\* Array.__setitem__ on a declared array symbol.
ArraySetItem(name, key, value) ==
    /\ name \in ArraysOf(declarations)
    /\ Len(arrays[name].array) < MaxStores
    /\ arrays' = [arrays EXCEPT ![name] = [array |-> Append(@.array, <<key, value>>),
                                           cache |-> {}]]
    /\ Install(Cur, Op("setitem", name, NoCon, key), RetNone)
    /\ UNCHANGED saved

Reset(full) ==
    LET S == DoReset(kind, Cur, full)
    IN  /\ Install(S, Op("reset", IF full THEN "full" ELSE "soft", NoCon, 0), RetNone)
        /\ saved' = IF full THEN <<>> ELSE saved
        /\ Collect(S.decls)

GetValue(name) ==
    /\ name \in BitVecsOf(declarations)
    /\ \E o \in DoGetValue(kind, Cur, name, unknownOk) :
        /\ Install(o.S, Op("getvalue", name, NoCon, 0), o.ret)
        /\ UNCHANGED <<saved, arrays>>

GetAllValues(x, maxcnt) ==
    /\ x \in BitVecsOf(declarations)
    /\ Len(stack) < MaxStack
    /\ \E o \in DoGetAllValues(kind, Cur, x, maxcnt, unknownOk) :
        /\ Install(o.S, [Op("getallvalues", x, NoCon, maxcnt) EXCEPT
                            !.feas = Feasible(constraints, x)], o.ret)
        /\ UNCHANGED <<saved, arrays>>

SolverInitOf(k, unk) ==
    /\ kind = k
    /\ unknownOk = unk
    /\ status = "unknown"
    /\ sid = 0
    /\ stack = <<>>
    /\ declarations = EmptyMap
    /\ constraints = <<>>
    /\ arrays = [n \in {} |-> NoObj]
    /\ proc = NewProc
    /\ saved = <<>>
    /\ lastOp = Op("init", "", NoCon, 0)
    /\ lastRet = RetNone
    /\ lastSent = IF kind = "z3" THEN Z3Options ELSE CVC4Options

SolverInit(unk) == \E k \in {"z3", "cvc4"} : SolverInitOf(k, unk)

(***************************************************************************)
(* The REIL-to-SMT translator.  Bit vectors are sequences of bits, least   *)
(* significant bit first.                                                  *)
(***************************************************************************)
AddressSize == 32

Zeros(w) == [i \in 1..w |-> 0]

Ones(w) == [i \in 1..w |-> 1]

RECURSIVE Pow2(_)
Pow2(n) == IF n = 0 THEN 1 ELSE 2 * Pow2(n - 1)

\* The w-bit vector of a small natural number.
Bits(v, w) == [i \in 1..w |-> IF i > 30 THEN 0 ELSE (v \div Pow2(i - 1)) % 2]

RECURSIVE ToIntFrom(_, _)
ToIntFrom(x, i) == IF i > Len(x) THEN 0 ELSE x[i] + 2 * ToIntFrom(x, i + 1)

\* The number a vector of small value stands for.
ToInt(x) == ToIntFrom(x, 1)

\* The sum bits lo..hi of x + y + c and the carry out of bit hi, the halves
\* of the range one after the other.
RECURSIVE AddRange(_, _, _, _, _)
AddRange(x, y, lo, hi, c) ==
    IF lo = hi
    THEN (CHOOSE it \in {[s |-> <<t % 2>>, c |-> t \div 2] : t \in {x[lo] + y[lo] + c}} : TRUE)
    ELSE (CHOOSE it \in {(CHOOSE it \in {[s |-> lower.s \o upper.s, c |-> upper.c]
             : upper \in {AddRange(x, y, (lo + hi) \div 2 + 1, hi, lower.c)}} : TRUE)
             : lower \in {AddRange(x, y, lo, (lo + hi) \div 2, c)}} : TRUE)

AddFrom(x, y, i, c) == IF i > Len(x) THEN <<>> ELSE AddRange(x, y, i, Len(x), c).s

BvAdd(x, y) == AddFrom(x, y, 1, 0)

BvNot(x) == [i \in 1..Len(x) |-> 1 - x[i]]

BvSub(x, y) == AddFrom(x, BvNot(y), 1, 1)

BvShl(x, k) == [j \in 1..Len(x) |-> IF j <= k THEN 0 ELSE x[j - k]]

RECURSIVE MulFrom(_, _, _, _)
MulFrom(x, y, i, acc) ==
    IF i > Len(y) \/ Len(acc) # Len(x) THEN acc
    ELSE MulFrom(x, y, i + 1, IF y[i] = 1 THEN BvAdd(acc, BvShl(x, i - 1)) ELSE acc)

BvMul(x, y) == MulFrom(x, y, 1, Zeros(Len(x)))

BvExtract(x, offset, size) == SubSeq(x, offset + 1, offset + size)

BvZeroExtend(x, size) == x \o Zeros(size - Len(x))

BvSignExtend(x, size) == x \o [i \in 1..(size - Len(x)) |-> x[Len(x)]]

BvNeg(x) == BvSub(Zeros(Len(x)), x)

\* The number of places a shift by y moves the bits of a w-bit vector: the
\* value of y, or w when that value is w or more.
ShiftAmount(y, w) ==
    IF \E i \in 1..Len(y) : i > 6 /\ y[i] = 1 THEN w
    ELSE LET n == ToInt(SubSeq(y, 1, IF Len(y) < 6 THEN Len(y) ELSE 6))
         IN  IF n > w THEN w ELSE n

BvLshrBy(x, k) == [j \in 1..Len(x) |-> IF j + k > Len(x) THEN 0 ELSE x[j + k]]

\* x >= y on bits 1..i: the highest bit where they differ is set in x.
UnsignedGeFrom(x, y, i) ==
    \A k \in 1..i : (x[k] # y[k] /\ \A j \in (k + 1)..i : x[j] = y[j]) => x[k] = 1

\* bvsge: the top bit is the sign.
SignedGe(x, y) ==
    IF x[Len(x)] # y[Len(y)] THEN x[Len(x)] = 0 ELSE UnsignedGeFrom(x, y, Len(x))

\* Expressions: smtsymbol.BitVec, smtsymbol.Constant, smtsymbol.BitVecArray
\* and the functions of smtfunction.
E(op, size, name, val, args) ==
    [op |-> op, size |-> size, name |-> name, val |-> val, args |-> args]

BitVecE(size, name) == E("var", size, name, 0, <<>>)

ConstantE(size, value) == E("const", size, "", value, <<>>)

BitVecArrayE(size, name) == E("avar", size, name, 0, <<>>)

extract(s, offset, size) == E("extract", size, "", offset, <<s>>)

zero_extend(s, size) == E("zero_extend", size, "", 0, <<s>>)

sign_extend(s, size) == E("sign_extend", size, "", 0, <<s>>)

NegE(a) == E("bvneg", a.size, "", 0, <<a>>)

GeE(a, b) == E("bvsge", 0, "", 0, <<a, b>>)

ite(size, cond, true, false) == E("ite", size, "", 0, <<cond, true, false>>)

BinE(op, a, b) == E(op, a.size, "", 0, <<a, b>>)

EqE(a, b) == E("=", 0, "", 0, <<a, b>>)

SelectE(arr, key) == E("select", 8, "", 0, <<arr, key>>)

StoreE(arr, key, value) == E("store", arr.size, "", 0, <<arr, key, value>>)

\* What never-written memory holds at address a.
MemInit(a) == [i \in 1..8 |-> 1 - a[i]]

Max(S) == CHOOSE x \in S : \A y \in S : y <= x

SelectV(m, a) ==
    LET hits == {i \in 1..Len(m) : m[i][1] = a}
    IN  IF hits = {} THEN MemInit(a) ELSE m[Max(hits)][2]

\* The value of a bit-vector expression, and of an array expression (the
\* writes made to the initial memory, oldest first), under the values env
\* gives to the variables.
RECURSIVE Eval(_, _), EvalArr(_, _), EvalBool(_, _)
Eval(e, env) ==
    CASE e.op = "var" -> env[e.name]
      [] e.op = "const" -> Bits(e.val, e.size)
      [] e.op = "extract" -> BvExtract(Eval(e.args[1], env), e.val, e.size)
      [] e.op = "zero_extend" -> BvZeroExtend(Eval(e.args[1], env), e.size)
      [] e.op = "bvadd" -> BvAdd(Eval(e.args[1], env), Eval(e.args[2], env))
      [] e.op = "bvsub" -> BvSub(Eval(e.args[1], env), Eval(e.args[2], env))
      [] e.op = "bvmul" -> BvMul(Eval(e.args[1], env), Eval(e.args[2], env))
      [] e.op = "sign_extend" -> BvSignExtend(Eval(e.args[1], env), e.size)
      [] e.op = "bvneg" -> BvNeg(Eval(e.args[1], env))
      [] e.op = "bvshl" ->
            BvShl(Eval(e.args[1], env), ShiftAmount(Eval(e.args[2], env), e.size))
      [] e.op = "bvlshr" ->
            BvLshrBy(Eval(e.args[1], env), ShiftAmount(Eval(e.args[2], env), e.size))
      [] e.op = "ite" ->
            IF EvalBool(e.args[1], env) THEN Eval(e.args[2], env) ELSE Eval(e.args[3], env)
      [] e.op = "select" -> SelectV(EvalArr(e.args[1], env), Eval(e.args[2], env))

EvalBool(e, env) ==
    CASE e.op = "bvsge" -> SignedGe(Eval(e.args[1], env), Eval(e.args[2], env))
      [] e.op = "=" -> Eval(e.args[1], env) = Eval(e.args[2], env)

EvalArr(e, env) ==
    IF e.op = "store"
    THEN Append(EvalArr(e.args[1], env), <<Eval(e.args[2], env), Eval(e.args[3], env)>>)
    ELSE <<>>

\* REIL operands.
Reg(name, size) == [kind |-> "reg", name |-> name, size |-> size, imm |-> 0]

Imm(value, size) == [kind |-> "imm", name |-> "", size |-> size, imm |-> value]

Empty == [kind |-> "empty", name |-> "", size |-> 0, imm |-> 0]

Instr(mn, o1, o2, o3) == [mn |-> mn, o1 |-> o1, o2 |-> o2, o3 |-> o3]

\* The alias mappers and register sizes given to set_arch_alias_mapper and
\* set_arch_registers_size: x86 with 32-bit bases, and with 16-bit bases.
Archs == {"x86_32", "x86_16"}

ArchAliasMapper(a) ==
    IF a = "x86_32"
    THEN [n \in {"al", "ah", "ax"} |->
            CASE n = "al" -> <<"eax", 0>> [] n = "ah" -> <<"eax", 8>> [] n = "ax" -> <<"eax", 0>>]
    ELSE [n \in {"al", "ah"} |->
            CASE n = "al" -> <<"ax", 0>> [] n = "ah" -> <<"ax", 8>>]

ArchRegsSize(a) ==
    IF a = "x86_32"
    THEN [n \in {"eax", "ebx"} |-> 32]
    ELSE [n \in {"ax", "bx"} |-> 16]

\* VariableNamer: get_current gives name_k, get_next increments k first.
VarName(base, k) == base \o "_" \o ToString(k)

MemName(k) == "MEM_" \o ToString(k)

TOut(T, val, constrs) == [T |-> T, val |-> val, constrs |-> constrs, raised |-> FALSE]

BvObj(size, name) == [kind |-> "BitVec", size |-> size, array |-> BitVecE(size, name)]

ArrObj(size, name) == [kind |-> "Array", size |-> size, array |-> BitVecArrayE(size, name)]

make_bitvec(T, size, name) ==
    IF name \in DOMAIN T.decls THEN TOut(T, T.decls[name].array, <<>>)
    ELSE TOut([T EXCEPT !.decls = Put(@, name, BvObj(size, name))], BitVecE(size, name), <<>>)

\* Returns the name of the array object.
make_array(T, size, name) ==
    IF name \in DOMAIN T.decls THEN TOut(T, name, <<>>)
    ELSE TOut([T EXCEPT !.decls = Put(@, name, ArrObj(size, name))], name, <<>>)

GetVarName(T, name, fresh) ==
    LET m0 == IF name \in DOMAIN T.vnm THEN T.vnm ELSE Put(T.vnm, name, 0)
        m1 == IF fresh THEN [m0 EXCEPT ![name] = @ + 1] ELSE m0
    IN  TOut([T EXCEPT !.vnm = m1], VarName(name, m1[name]), <<>>)

TranslateSrcRegisterOprnd(T, operand) ==
    LET aliased == operand.name \in DOMAIN ArchAliasMapper(T.arch)
        reg_info == ArchAliasMapper(T.arch)[operand.name]
        var_base_name == IF aliased THEN reg_info[1] ELSE operand.name
        var_size == IF aliased THEN ArchRegsSize(T.arch)[var_base_name] ELSE operand.size
    IN  (CHOOSE it \in {(CHOOSE it \in {TOut(b.T, IF aliased THEN extract(b.val, reg_info[2], operand.size) ELSE b.val,
                 <<>>)
            : b \in {make_bitvec(n.T, var_size, n.val)}} : TRUE)
            : n \in {GetVarName(T, var_base_name, FALSE)}} : TRUE)

TranslateSrcOprnd(T, operand) ==
    IF operand.kind = "reg" THEN TranslateSrcRegisterOprnd(T, operand)
    ELSE TOut(T, ConstantE(operand.size, operand.imm), <<>>)

TranslateDstRegisterOprnd(T, operand) ==
    IF operand.name \in DOMAIN ArchAliasMapper(T.arch)
    THEN LET reg_info == ArchAliasMapper(T.arch)[operand.name]
             var_base_name == reg_info[1]
             offset == reg_info[2]
             var_size == ArchRegsSize(T.arch)[var_base_name]
             upper == var_size - offset - operand.size
         IN  (CHOOSE it \in {(CHOOSE it \in {(CHOOSE it \in {(CHOOSE it \in {(CHOOSE it \in {(CHOOSE it \in {TOut(ov.T, extract(rv.val, offset, operand.size),
                      IF 0 < offset /\ offset < var_size - 1 THEN <<lowerC, upperC>>
                      ELSE IF offset = 0 THEN <<upperC>>
                      ELSE IF offset = var_size - 1 THEN <<lowerC>>
                      ELSE <<>>)
                 : upperC \in {EqE(extract(rv.val, offset + operand.size, upper),
                      extract(ov.val, offset + operand.size, upper))}} : TRUE)
                 : lowerC \in {EqE(extract(rv.val, 0, offset), extract(ov.val, 0, offset))}} : TRUE)
                 : ov \in {make_bitvec(rv.T, var_size, old.val)}} : TRUE)
                 : rv \in {make_bitvec(new.T, var_size, new.val)}} : TRUE)
                 : new \in {GetVarName(old.T, var_base_name, TRUE)}} : TRUE)
                 : old \in {GetVarName(T, var_base_name, FALSE)}} : TRUE)
    ELSE (CHOOSE it \in {(CHOOSE it \in {TOut(b.T, b.val, <<>>)
             : b \in {make_bitvec(n.T, operand.size, n.val)}} : TRUE)
             : n \in {GetVarName(T, operand.name, TRUE)}} : TRUE)

TranslateDstOprnd(T, operand) ==
    IF operand.kind = "reg" THEN TranslateDstRegisterOprnd(T, operand)
    ELSE [TOut(T, ConstantE(0, 0), <<>>) EXCEPT !.raised = TRUE]

\* The result of translating one instruction.
Res(T, exprs, parent, raised) ==
    [T |-> T, exprs |-> exprs, parent |-> parent, raised |-> raised]

\* _translate_add, _translate_sub and _translate_mul, which differ in the
\* operator only.
TranslateArith(bvop, T, o1, o2, o3) ==
    IF o1.size = 0 \/ o2.size = 0 \/ o3.size = 0 \/ o1.size # o2.size
    THEN Res(T, <<>>, <<>>, TRUE)
    ELSE (CHOOSE it \in {(CHOOSE it \in {(CHOOSE it \in {IF d.raised THEN Res(d.T, <<>>, <<>>, TRUE)
             ELSE (CHOOSE it \in {Res(d.T, <<expr>> \o d.constrs, d.constrs, FALSE)
                      : expr \in {IF o3.size > o1.size
                       THEN EqE(d.val, BinE(bvop, zero_extend(a.val, o3.size),
                                                  zero_extend(b.val, o3.size)))
                       ELSE IF o3.size < o1.size
                       THEN EqE(d.val, extract(BinE(bvop, a.val, b.val), 0, o3.size))
                       ELSE EqE(d.val, BinE(bvop, a.val, b.val))}} : TRUE)
             : d \in {TranslateDstOprnd(b.T, o3)}} : TRUE)
             : b \in {TranslateSrcOprnd(a.T, o2)}} : TRUE)
             : a \in {TranslateSrcOprnd(T, o1)}} : TRUE)

\* An ADD that widens the sum of the narrow inputs instead of the inputs.
TranslateAddWidenAfter(T, o1, o2, o3) ==
    (CHOOSE it \in {IF r.raised \/ o3.size <= o1.size THEN r
        ELSE [r EXCEPT !.exprs[1] =
                 EqE(@.args[1], zero_extend(BinE("bvadd", @.args[2].args[1].args[1],
                                                          @.args[2].args[2].args[1]), o3.size))]
        : r \in {TranslateArith("bvadd", T, o1, o2, o3)}} : TRUE)

TranslateAdd(T, o1, o2, o3) == TranslateArith("bvadd", T, o1, o2, o3)

TranslateSub(T, o1, o2, o3) == TranslateArith("bvsub", T, o1, o2, o3)

TranslateMul(T, o1, o2, o3) == TranslateArith("bvmul", T, o1, o2, o3)

\* _translate_div, _translate_sdiv and _translate_smod, which differ in the
\* operator only.
TranslateDivLike(bvop, T, o1, o2, o3) ==
    IF o1.size = 0 \/ o2.size = 0 \/ o3.size = 0 \/ o1.size # o2.size \/ o2.size # o3.size
    THEN Res(T, <<>>, <<>>, TRUE)
    ELSE (CHOOSE it \in {(CHOOSE it \in {(CHOOSE it \in {IF d.raised THEN Res(d.T, <<>>, <<>>, TRUE)
             ELSE Res(d.T, <<EqE(d.val, BinE(bvop, a.val, b.val))>> \o d.constrs,
                      d.constrs, FALSE)
             : d \in {TranslateDstOprnd(b.T, o3)}} : TRUE)
             : b \in {TranslateSrcOprnd(a.T, o2)}} : TRUE)
             : a \in {TranslateSrcOprnd(T, o1)}} : TRUE)

TranslateDiv(T, o1, o2, o3) == TranslateDivLike("bvudiv", T, o1, o2, o3)

TranslateSdiv(T, o1, o2, o3) == TranslateDivLike("bvsdiv", T, o1, o2, o3)

\* _translate_mod: the assert on the destination width is commented out, and
\* a narrower destination raises after the operands were translated.
TranslateMod(T, o1, o2, o3) ==
    IF o1.size = 0 \/ o2.size = 0 \/ o3.size = 0 \/ o1.size # o2.size
    THEN Res(T, <<>>, <<>>, TRUE)
    ELSE (CHOOSE it \in {(CHOOSE it \in {(CHOOSE it \in {IF d.raised THEN Res(d.T, <<>>, <<>>, TRUE)
             ELSE IF o1.size = o3.size
             THEN Res(d.T, <<EqE(d.val, BinE("bvurem", a.val, b.val))>> \o d.constrs,
                      d.constrs, FALSE)
             ELSE IF o3.size > o1.size
             THEN Res(d.T, <<EqE(d.val, BinE("bvurem", zero_extend(a.val, o3.size),
                                                       zero_extend(b.val, o3.size)))>>
                           \o d.constrs,
                      d.constrs, FALSE)
             ELSE Res(d.T, <<>>, <<>>, TRUE)
             : d \in {TranslateDstOprnd(b.T, o3)}} : TRUE)
             : b \in {TranslateSrcOprnd(a.T, o2)}} : TRUE)
             : a \in {TranslateSrcOprnd(T, o1)}} : TRUE)

TranslateSmod(T, o1, o2, o3) == TranslateDivLike("bvsmod", T, o1, o2, o3)

\* A BSH whose right shift is by op2 itself instead of by -op2.
TranslateBshNoNegate(T, o1, o2, o3) ==
    IF o1.size = 0 \/ o2.size = 0 \/ o3.size = 0 \/ o1.size # o2.size
    THEN Res(T, <<>>, <<>>, TRUE)
    ELSE (CHOOSE it \in {(CHOOSE it \in {(CHOOSE it \in {IF d.raised THEN Res(d.T, <<>>, <<>>, TRUE)
             ELSE Res(d.T,
                      <<EqE(d.val, ite(o3.size, GeE(b.val, ConstantE(b.val.size, 0)),
                                       BinE("bvshl", a.val, b.val),
                                       BinE("bvlshr", a.val, b.val)))>> \o d.constrs,
                      d.constrs, FALSE)
             : d \in {TranslateDstOprnd(b.T, o3)}} : TRUE)
             : b \in {TranslateSrcOprnd(a.T, o2)}} : TRUE)
             : a \in {TranslateSrcOprnd(T, o1)}} : TRUE)

TranslateBsh(T, o1, o2, o3) ==
    IF o1.size = 0 \/ o2.size = 0 \/ o3.size = 0 \/ o1.size # o2.size
    THEN Res(T, <<>>, <<>>, TRUE)
    ELSE (CHOOSE it \in {(CHOOSE it \in {(CHOOSE it \in {IF d.raised THEN Res(d.T, <<>>, <<>>, TRUE)
             ELSE (CHOOSE it \in {(CHOOSE it \in {Res(d.T,
                          <<EqE(d.val, ite(o3.size, GeE(b.val, ConstantE(b.val.size, 0)),
                                           shl, shr))>> \o d.constrs,
                          d.constrs, FALSE)
                      : shl \in {IF o3.size > o1.size
                       THEN extract(BinE("bvshl", zero_extend(a.val, o3.size),
                                         zero_extend(b.val, o3.size)),
                                    0, d.val.size)
                       ELSE IF o3.size < o1.size
                       THEN extract(BinE("bvshl", a.val, b.val), 0, d.val.size)
                       ELSE BinE("bvshl", a.val, b.val)}} : TRUE)
                      : shr \in {IF o3.size > o1.size
                       THEN extract(BinE("bvlshr", zero_extend(a.val, o3.size),
                                         sign_extend(NegE(b.val), o3.size)),
                                    0, d.val.size)
                       ELSE IF o3.size < o1.size
                       THEN extract(BinE("bvlshr", a.val, NegE(b.val)), 0, d.val.size)
                       ELSE BinE("bvlshr", a.val, NegE(b.val))}} : TRUE)
             : d \in {TranslateDstOprnd(b.T, o3)}} : TRUE)
             : b \in {TranslateSrcOprnd(a.T, o2)}} : TRUE)
             : a \in {TranslateSrcOprnd(T, o1)}} : TRUE)

\* An index that adds the bit offset instead of the byte offset.
KeyAtBitOffset(where, i) == BinE("bvadd", where, ConstantE(where.size, i))

\* where + i / 8
KeyAt(where, i) == BinE("bvadd", where, ConstantE(where.size, i \div 8))

\* The offsets xrange(0, size, 8) goes through.
ByteOffsets(size) == [j \in 1..((size + 7) \div 8) |-> 8 * (j - 1)]

Reversed(s) == [i \in 1..Len(s) |-> s[Len(s) + 1 - i]]

\* self._mem_curr[key]
MemSelect(T, key) == SelectE(T.decls[T.mem_curr].array, key)

\* self._mem_curr[key] = value
MemStore(T, key, value) == [T EXCEPT !.decls[T.mem_curr].array = StoreE(@, key, value)]

TranslateLdm(T, o1, o2, o3) ==
    IF o1.size # AddressSize \/ o3.size = 0 THEN Res(T, <<>>, <<>>, TRUE)
    ELSE (CHOOSE it \in {(CHOOSE it \in {(CHOOSE it \in {IF d.raised THEN Res(d.T, <<>>, <<>>, TRUE)
             ELSE Res(d.T,
                      [j \in 1..Len(offs) |->
                          EqE(MemSelect(d.T, KeyAt(a.val, offs[j])),
                              extract(d.val, offs[j], 8))] \o d.constrs,
                      d.constrs, FALSE)
             : offs \in {Reversed(ByteOffsets(o3.size))}} : TRUE)
             : d \in {TranslateDstOprnd(a.T, o3)}} : TRUE)
             : a \in {TranslateSrcOprnd(T, o1)}} : TRUE)

RECURSIVE StoreBytes(_, _, _, _)
StoreBytes(T, where, value, offs) ==
    IF offs = <<>> THEN T
    ELSE StoreBytes(MemStore(T, KeyAt(where, offs[1]), extract(value, offs[1], 8)),
                    where, value, Tail(offs))

TranslateStm(T, o1, o2, o3) ==
    IF o1.size = 0 \/ o3.size # AddressSize THEN Res(T, <<>>, <<>>, TRUE)
    ELSE (CHOOSE it \in {(CHOOSE it \in {(CHOOSE it \in {(CHOOSE it \in {(CHOOSE it \in {Res([mk.T EXCEPT !.mem_curr = mk.val],
                 <<EqE(mk.T.decls[mk.val].array, T2.decls[T2.mem_curr].array)>>,
                 <<>>, FALSE)
             : mk \in {make_array(T2, AddressSize, MemName(T2.mem_instance))}} : TRUE)
             : T2 \in {[T1 EXCEPT !.mem_instance = @ + 1]}} : TRUE)
             : T1 \in {StoreBytes(w.T, w.val, a.val, ByteOffsets(o1.size))}} : TRUE)
             : w \in {TranslateSrcOprnd(a.T, o3)}} : TRUE)
             : a \in {TranslateSrcOprnd(T, o1)}} : TRUE)

TranslateStr(T, o1, o2, o3) ==
    IF o1.size = 0 \/ o3.size = 0 THEN Res(T, <<>>, <<>>, TRUE)
    ELSE (CHOOSE it \in {(CHOOSE it \in {IF d.raised THEN Res(d.T, <<>>, <<>>, TRUE)
             ELSE (CHOOSE it \in {Res(d.T, <<expr>> \o d.constrs, d.constrs, FALSE)
                      : expr \in {IF o1.size = o3.size THEN EqE(a.val, d.val)
                       ELSE IF o1.size < o3.size
                       THEN EqE(d.val, zero_extend(a.val, d.val.size))
                       ELSE EqE(extract(a.val, 0, d.val.size), d.val)}} : TRUE)
             : d \in {TranslateDstOprnd(a.T, o3)}} : TRUE)
             : a \in {TranslateSrcOprnd(T, o1)}} : TRUE)

TranslateJcc(T, o1, o2, o3) == Res(T, <<>>, <<>>, FALSE)

\* An UNDEF that gives its destination a new version.
TranslateUndefFresh(T, o1, o2, o3) ==
    (CHOOSE it \in {Res(d.T, <<>>, <<>>, d.raised) : d \in {TranslateDstOprnd(T, o3)}} : TRUE)

TranslateUndef(T, o1, o2, o3) == Res(T, <<>>, <<>>, FALSE)

TranslateUnkn(T, o1, o2, o3) == Res(T, <<>>, <<>>, TRUE)

TranslateNop(T, o1, o2, o3) == Res(T, <<>>, <<>>, FALSE)

TranslateRet(T, o1, o2, o3) == Res(T, <<>>, <<>>, FALSE)

\* SmtTranslator.translate
translate(T, instr) ==
    CASE instr.mn = "ADD" -> TranslateAdd(T, instr.o1, instr.o2, instr.o3)
      [] instr.mn = "SUB" -> TranslateSub(T, instr.o1, instr.o2, instr.o3)
      [] instr.mn = "MUL" -> TranslateMul(T, instr.o1, instr.o2, instr.o3)
      [] instr.mn = "DIV" -> TranslateDiv(T, instr.o1, instr.o2, instr.o3)
      [] instr.mn = "SDIV" -> TranslateSdiv(T, instr.o1, instr.o2, instr.o3)
      [] instr.mn = "MOD" -> TranslateMod(T, instr.o1, instr.o2, instr.o3)
      [] instr.mn = "SMOD" -> TranslateSmod(T, instr.o1, instr.o2, instr.o3)
      [] instr.mn = "BSH" -> TranslateBsh(T, instr.o1, instr.o2, instr.o3)
      [] instr.mn = "LDM" -> TranslateLdm(T, instr.o1, instr.o2, instr.o3)
      [] instr.mn = "STM" -> TranslateStm(T, instr.o1, instr.o2, instr.o3)
      [] instr.mn = "STR" -> TranslateStr(T, instr.o1, instr.o2, instr.o3)
      [] instr.mn = "JCC" -> TranslateJcc(T, instr.o1, instr.o2, instr.o3)
      [] instr.mn = "UNDEF" -> TranslateUndef(T, instr.o1, instr.o2, instr.o3)
      [] instr.mn = "NOP" -> TranslateNop(T, instr.o1, instr.o2, instr.o3)
      [] instr.mn = "RET" -> TranslateRet(T, instr.o1, instr.o2, instr.o3)
      [] instr.mn = "UNKN" -> TranslateUnkn(T, instr.o1, instr.o2, instr.o3)
      [] OTHER -> Res(T, <<>>, <<>>, TRUE)

(***************************************************************************)
(* The calls a user of the translator makes.                               *)
(***************************************************************************)
CurT == [arch |-> arch, vnm |-> var_name_mappers, mem_instance |-> mem_instance,
         mem_curr |-> mem_curr, decls |-> tdecls]

\* The registers and temporaries the translated code uses.
BaseReg(a) == IF a = "x86_32" THEN Reg("eax", 32) ELSE Reg("ax", 16)

OtherReg(a) == IF a = "x86_32" THEN Reg("ebx", 32) ELSE Reg("bx", 16)

\* The operand that holds an address.
AddrReg(a) == IF a = "x86_32" THEN Reg("ebx", 32) ELSE Reg("t1", AddressSize)

ArithOperands(a) ==
    IF a = "x86_32"
    THEN { <<Reg("eax", 32), Reg("ebx", 32), Reg("eax", 32)>>,
           <<Reg("al", 8), Reg("ah", 8), Reg("ax", 16)>>,
           <<Reg("ax", 16), Imm(3, 16), Reg("al", 8)>>,
           <<Reg("al", 8), Imm(1, 8), Reg("ah", 8)>>,
           <<Reg("al", 8), Reg("eax", 32), Reg("eax", 32)>> }
    ELSE { <<Reg("ax", 16), Reg("bx", 16), Reg("ax", 16)>>,
           <<Reg("al", 8), Reg("ah", 8), Reg("bx", 16)>>,
           <<Reg("ax", 16), Reg("bx", 16), Reg("ah", 8)>>,
           <<Reg("al", 8), Reg("ax", 16), Reg("ax", 16)>> }

AddOperands(a) ==
    ArithOperands(a) \cup
        (IF a = "x86_32" THEN {<<Reg("eax", 32), Reg("ebx", 32), Reg("al", 8)>>} ELSE {})

\* Operands of the division instructions: equal widths, a wider and a
\* narrower destination, and sources of different widths.
DivOperands(a) ==
    { <<BaseReg(a), OtherReg(a), BaseReg(a)>>,
      <<Reg("al", 8), Imm(0, 8), Reg("ah", 8)>>,
      <<Reg("al", 8), Reg("ah", 8), OtherReg(a)>>,
      <<OtherReg(a), BaseReg(a), Reg("al", 8)>>,
      <<Reg("al", 8), BaseReg(a), BaseReg(a)>> }

\* Operands of BSH: a wider, a narrower and an equally wide destination,
\* shift counts in registers and as immediates of either sign, and
\* one-bit operands.
BshOperands(a) ==
    { <<Reg("al", 8), Reg("ah", 8), Reg("ax", 16)>>,
      <<Reg("al", 8), Reg("ah", 8), Reg("al", 8)>>,
      <<Reg("ax", 16), Imm(65533, 16), Reg("al", 8)>>,
      <<Reg("ax", 16), Imm(3, 16), Reg("ah", 8)>>,
      <<Imm(1, 1), Imm(1, 1), Reg("al", 8)>>,
      <<Imm(1, 1), Imm(0, 1), Reg("cf", 1)>>,
      <<Imm(1, 1), Imm(1, 1), Reg("cf", 1)>> }

StoreSources(a) == {BaseReg(a), Reg("ah", 8), Imm(7, 8)}

Addresses(a) == {AddrReg(a), Imm(16, AddressSize)}

LoadDestinations(a) == {BaseReg(a), Reg("al", 8)}

StrOperands(a) ==
    { <<BaseReg(a), BaseReg(a)>>, <<Imm(5, 8), OtherReg(a)>>, <<OtherReg(a), Reg("ah", 8)>> }

\* The bit-vector variables an expression mentions.
RECURSIVE VarsOf(_)
VarsOf(e) ==
    IF e.op = "var" THEN {e.name}
    ELSE UNION {VarsOf(e.args[j]) : j \in 1..Len(e.args)}

VarsIn(exprs) == UNION {VarsOf(exprs[j]) : j \in 1..Len(exprs)}

NoTr == [instr |-> Instr("", Empty, Empty, Empty), native |-> "", exprs |-> <<>>,
         parent |-> <<>>, raised |-> FALSE,
         vnm0 |-> [n \in {} |-> 0], mem0 |-> 0]

InstallT(T) ==
    /\ \A n \in DOMAIN T.vnm : T.vnm[n] <= MaxVersion
    /\ T.mem_instance <= MaxMem
    /\ var_name_mappers' = T.vnm
    /\ mem_instance' = T.mem_instance
    /\ mem_curr' = T.mem_curr
    /\ tdecls' = T.decls
    /\ UNCHANGED <<arch, solverVars, emuVars>>

\* translator.translate(instr)
Translate(instr) ==
    LET r == translate(CurT, instr)
    IN  /\ InstallT(r.T)
        /\ trLast' = [instr |-> instr, native |-> "", exprs |-> r.exprs,
                      parent |-> r.parent, raised |-> r.raised,
                      vnm0 |-> var_name_mappers, mem0 |-> mem_instance]
        /\ emitted' = emitted \cup VarsIn(r.exprs)

ADD == \E o \in AddOperands(arch) : Translate(Instr("ADD", o[1], o[2], o[3]))

SUB == \E o \in ArithOperands(arch) : Translate(Instr("SUB", o[1], o[2], o[3]))

MUL == \E o \in ArithOperands(arch) : Translate(Instr("MUL", o[1], o[2], o[3]))

DIV == \E o \in DivOperands(arch) : Translate(Instr("DIV", o[1], o[2], o[3]))

SDIV == \E o \in DivOperands(arch) : Translate(Instr("SDIV", o[1], o[2], o[3]))

MOD == \E o \in DivOperands(arch) : Translate(Instr("MOD", o[1], o[2], o[3]))

SMOD == \E o \in DivOperands(arch) : Translate(Instr("SMOD", o[1], o[2], o[3]))

BSH == \E o \in BshOperands(arch) : Translate(Instr("BSH", o[1], o[2], o[3]))

LDM == \E a \in Addresses(arch), d \in LoadDestinations(arch) : Translate(Instr("LDM", a, Empty, d))

STM == \E s \in StoreSources(arch), a \in Addresses(arch) : Translate(Instr("STM", s, Empty, a))

STR == \E o \in StrOperands(arch) : Translate(Instr("STR", o[1], Empty, o[2]))

JCC == Translate(Instr("JCC", Imm(1, 1), Empty, Imm(16, AddressSize + 8)))

UNDEF == Translate(Instr("UNDEF", Empty, Empty, OtherReg(arch)))

UNKN == Translate(Instr("UNKN", Empty, Empty, Empty))

NOP == Translate(Instr("NOP", Empty, Empty, Empty))

RET == Translate(Instr("RET", Empty, Empty, Empty))

\* The IR the x86 lifter emits for "add r1, r2", flag updates left out.
LiftAdd(r1, r2) ==
    <<Instr("ADD", r1, r2, Reg("t0", 2 * r1.size)), Instr("STR", Reg("t0", 2 * r1.size), Empty, r1)>>

RECURSIVE TranslateAll(_, _)
TranslateAll(T, instrs) ==
    IF instrs = <<>> THEN Res(T, <<>>, <<>>, FALSE)
    ELSE (CHOOSE it \in {IF r.raised THEN r
             ELSE (CHOOSE it \in {[rest EXCEPT !.exprs = r.exprs \o @, !.parent = r.parent \o @]
                      : rest \in {TranslateAll(r.T, Tail(instrs))}} : TRUE)
             : r \in {translate(T, instrs[1])}} : TRUE)

\* Lifting "add r1, r2" and translating each instruction of the result.
TranslateNativeAdd(r1, r2) ==
    LET r == TranslateAll(CurT, LiftAdd(r1, r2))
    IN  /\ arch = "x86_32"
        /\ InstallT(r.T)
        /\ trLast' = [instr |-> Instr("ADD", r1, r2, r1), native |-> "add",
                      exprs |-> r.exprs, parent |-> r.parent, raised |-> r.raised,
                      vnm0 |-> var_name_mappers, mem0 |-> mem_instance]
        /\ emitted' = emitted \cup VarsIn(r.exprs)

NativeAdd ==
    \E r \in {<<Reg("eax", 32), Reg("ebx", 32)>>, <<Reg("ebx", 32), Reg("eax", 32)>>} :
        TranslateNativeAdd(r[1], r[2])

\* SmtTranslator.__init__ followed by set_arch_alias_mapper and
\* set_arch_registers_size.
TranslatorInit(a) ==
    /\ arch = a
    /\ var_name_mappers = [n \in {} |-> 0]
    /\ mem_instance = 0
    /\ mem_curr = MemName(0)
    /\ tdecls = Put([n \in {} |-> ArrObj(0, "")], MemName(0), ArrObj(AddressSize, MemName(0)))
    /\ trLast = NoTr
    /\ emitted = {}

\* ReilEmulator(): no call in progress, no registers set, no handlers.
NoStep == [instr |-> Instr("", Empty, Empty, Empty), address |-> <<>>, before |-> <<>>,
           taken |-> FALSE, memory |-> <<>>, entry |-> <<>>, entryMemory |-> <<>>]

NoMemory == [a \in {} |-> <<>>]

EmulatorInit ==
    /\ run = "idle"
    /\ container = <<>>
    /\ registers = [n \in {} |-> <<>>]
    /\ memory = NoMemory
    /\ ip = <<>>
    /\ handlers = [pre |-> "", post |-> ""]
    /\ calls = <<>>
    /\ emLast = NoStep

\* The constraints and names of the supervisor's users.
CoreCons == {EqC("x", 0), EqC("x", 1)}
CoreBvNames == {"x"}

(***************************************************************************)
(* Spec: declaring symbols, asserting, and push/pop.                       *)
(***************************************************************************)
Init == SolverInit(FALSE) /\ TranslatorInit("x86_32") /\ EmulatorInit

Next ==
    \/ Push
    \/ Pop
    \/ \E c \in CoreCons : Add(c)
    \/ \E b \in BOOLEAN : AddBool(b)
    \/ \E n \in CoreBvNames : MkBitVec(n)
    \/ \E n \in BoolNames : MkBool(n)
    \/ \E n \in ArrNames : MkArray(n)
    \/ \E n \in ArrNames, key \in ArrKeys, value \in ArrVals : ArraySetItem(n, key, value)

Spec == Init /\ [][Next]_vars

(***************************************************************************)
(* SpecCheck: check() and reset() on a solver that may answer "unknown".   *)
(***************************************************************************)
InitCheck == SolverInit(TRUE) /\ TranslatorInit("x86_32") /\ EmulatorInit

NextCheck ==
    \/ Push
    \/ Pop
    \/ Check
    \/ \E c \in CoreCons : Add(c)
    \/ \E b \in BOOLEAN : AddBool(b)
    \/ \E n \in CoreBvNames : MkBitVec(n)
    \/ \E n \in ArrNames : MkArray(n)
    \/ \E full \in BOOLEAN : Reset(full)

SpecCheck == InitCheck /\ [][NextCheck]_vars

(***************************************************************************)
(* SpecValues: getvalue() and getallvalues().                              *)
(***************************************************************************)
InitValues == SolverInit(FALSE) /\ TranslatorInit("x86_32") /\ EmulatorInit

NextValues ==
    \/ Check
    \/ \E c \in UserCons : Add(c)
    \/ \E n \in BvNames : MkBitVec(n)
    \/ \E n \in BvNames : GetValue(n)
    \/ \E n \in BvNames, m \in 0..MaxCnt : GetAllValues(n, m)

SpecValues == InitValues /\ [][NextValues]_vars

(***************************************************************************)
(* SpecFaults: the supervisor on a solver that may answer "unknown", with  *)
(* pop() on an empty stack leaving an error reply unread in the pipe.      *)
(***************************************************************************)
NextFaults ==
    \/ Push
    \/ Pop
    \/ Check
    \/ \E c \in CoreCons : Add(c)
    \/ \E n \in CoreBvNames : MkBitVec(n)
    \/ \E full \in BOOLEAN : Reset(full)
    \/ \E n \in CoreBvNames : GetValue(n)
    \/ \E n \in CoreBvNames, m \in 0..MaxCnt : GetAllValues(n, m)

SpecFaults == InitCheck /\ [][NextFaults]_vars

(***************************************************************************)
(* SpecAdd: add() with constraints and with Python bools, and check(), in  *)
(* one scope: no push, pop or reset.                                       *)
(***************************************************************************)
NextAdd ==
    \/ Check
    \/ \E c \in CoreCons : Add(c)
    \/ \E b \in BOOLEAN : AddBool(b)
    \/ \E n \in CoreBvNames : MkBitVec(n)

SpecAdd == Init /\ [][NextAdd]_vars

(***************************************************************************)
(* SpecTr: the translator, given instructions one at a time.               *)
(***************************************************************************)
InitTr == SolverInitOf("z3", FALSE) /\ (\E a \in Archs : TranslatorInit(a)) /\ EmulatorInit

NextTr ==
    \/ ADD
    \/ SUB
    \/ MUL
    \/ LDM
    \/ STM
    \/ STR
    \/ JCC
    \/ UNDEF
    \/ UNKN
    \/ NOP
    \/ RET
    \/ NativeAdd

SpecTr == InitTr /\ [][NextTr]_vars

\* The translator given division and shift instructions.
NextDivShift ==
    \/ DIV
    \/ SDIV
    \/ MOD
    \/ SMOD
    \/ BSH

SpecDivShift == InitTr /\ [][NextDivShift]_vars

(***************************************************************************)
(* The REIL emulator and the x86 lifter that feeds it.  Their code         *)
(* (barf.core.reil.emulator, ReilContainer, the x86 translator's data      *)
(* movement and arithmetic routines) is outside the repository's sources,  *)
(* so the definitions below follow the specification's sections 3, 4.2,    *)
(* 4.3 and 4.4 and the calls of tests/core/reil/emulator/test_emulator.py. *)
(* The control-transfer routines are those of arch/x86/translators/        *)
(* control.py.                                                             *)
(***************************************************************************)
BvAnd(x, y) == [i \in 1..Len(x) |-> x[i] * y[i]]

BvOr(x, y) == [i \in 1..Len(x) |-> IF x[i] + y[i] > 0 THEN 1 ELSE 0]

BvXor(x, y) == [i \in 1..Len(x) |-> (x[i] + y[i]) % 2]

IsZero(x) == \A i \in 1..Len(x) : x[i] = 0

\* Restoring division over bits hi down to lo of x, the halves of the range
\* one after the other; y and rem carry one bit more than x.
DivBit(bit, y, rem) ==
    (CHOOSE it \in {IF UnsignedGeFrom(s, y, Len(y)) THEN [q |-> <<1>>, r |-> BvSub(s, y)]
        ELSE [q |-> <<0>>, r |-> s]
        : s \in {<<bit>> \o SubSeq(rem, 1, Len(rem) - 1)}} : TRUE)

RECURSIVE DivFrom(_, _, _, _, _)
DivFrom(x, y, hi, lo, rem) ==
    IF hi = lo THEN DivBit(x[hi], y, rem)
    ELSE (CHOOSE it \in {(CHOOSE it \in {[q |-> lower.q \o upper.q, r |-> lower.r]
             : lower \in {DivFrom(x, y, (hi + lo) \div 2, lo, upper.r)}} : TRUE)
             : upper \in {DivFrom(x, y, hi, (hi + lo) \div 2 + 1, rem)}} : TRUE)

\* Quotient and remainder of the unsigned division.
DivMod(x, y) ==
    (CHOOSE it \in {(CHOOSE it \in {DivFrom(xv, yv, Len(xv), 1, Zeros(Len(xv) + 1))
                            : yv \in {y \o <<0>>}} : TRUE)
        : xv \in {x}} : TRUE)

BvUdiv(x, y) == DivMod(x, y).q

BvUrem(x, y) == SubSeq(DivMod(x, y).r, 1, Len(x))

IsNegative(x) == x[Len(x)] = 1

Magnitude(x) == IF IsNegative(x) THEN BvNeg(x) ELSE x

\* Signed division truncates towards zero.
BvSdiv(x, y) ==
    (CHOOSE it \in {IF IsNegative(x) # IsNegative(y) THEN BvNeg(q) ELSE q
        : q \in {BvUdiv(Magnitude(x), Magnitude(y))}} : TRUE)

\* The signed remainder takes the sign of the divisor.
BvSmod(x, y) ==
    (CHOOSE it \in {IF IsZero(r) THEN r
        ELSE IF IsNegative(x) = IsNegative(y)
             THEN (IF IsNegative(x) THEN BvNeg(r) ELSE r)
             ELSE (IF IsNegative(x) THEN BvSub(y, r) ELSE BvAdd(r, y))
        : r \in {BvUrem(Magnitude(x), Magnitude(y))}} : TRUE)

\* A 32-bit constant from its two 16-bit halves.
Word(hi, lo) == Bits(lo, 16) \o Bits(hi, 16)

\* An immediate operand whose value is a bit vector.
ImmB(bits) == [kind |-> "imm", name |-> "", size |-> Len(bits), imm |-> bits]

\* (native_address << 8) | ir_subindex, 40 bits wide.
IrAddress(native, sub) == Bits(sub, 8) \o native

NativeOf(address) == SubSeq(address, 9, Len(address))

SubIndexOf(address) == ToInt(SubSeq(address, 1, 8))

\* Zero-extension or truncation to size bits.
Fit(x, size) == IF Len(x) >= size THEN SubSeq(x, 1, size) ELSE BvZeroExtend(x, size)

Widen(x, size) == IF Len(x) < size THEN BvZeroExtend(x, size) ELSE x

EmuAliasMapper == ArchAliasMapper("x86_32")

EmuBaseSize == 32

\* The value of a register that was never written is zero.
ReadBase(regs, name, size) ==
    IF name \in DOMAIN regs THEN Fit(regs[name], size) ELSE Zeros(size)

\* Operand reads: an immediate, a sub-register through the alias map, or a
\* register under its own name.
ReadOperand(regs, o) ==
    IF o.kind = "imm" THEN Fit(o.imm, o.size)
    ELSE IF o.name \in DOMAIN EmuAliasMapper
    THEN BvExtract(ReadBase(regs, EmuAliasMapper[o.name][1], EmuBaseSize),
                   EmuAliasMapper[o.name][2], o.size)
    ELSE ReadBase(regs, o.name, o.size)

\* A mutation of WriteOperand: the base is replaced by the shifted value.
WriteOperandNoMask(regs, o, value) ==
    IF o.name \in DOMAIN EmuAliasMapper
    THEN Put(regs, EmuAliasMapper[o.name][1],
             BvShl(Fit(Fit(value, o.size), EmuBaseSize), EmuAliasMapper[o.name][2]))
    ELSE Put(regs, o.name, Fit(value, o.size))

\* Register writes go through the alias map: read the base, mask out the
\* target bit range, OR in the new value shifted to the offset, store back.
WriteOperand(regs, o, value) ==
    IF o.name \in DOMAIN EmuAliasMapper
    THEN (CHOOSE it \in {(CHOOSE it \in {(CHOOSE it \in {(CHOOSE it \in {Put(regs, al[1], BvOr(BvAnd(base, BvNot(mask)), BvShl(new, al[2])))
             : new \in {Fit(Fit(value, o.size), EmuBaseSize)}} : TRUE)
             : base \in {ReadBase(regs, al[1], EmuBaseSize)}} : TRUE)
             : mask \in {BvShl(Fit(Ones(o.size), EmuBaseSize), al[2])}} : TRUE)
             : al \in {EmuAliasMapper[o.name]}} : TRUE)
    ELSE Put(regs, o.name, Fit(value, o.size))

\* The outcome of one instruction: the registers, the jump target (<<>> when
\* control falls through) and the fault raised ("" when none).
Outcome(regs, target, fault) == [registers |-> regs, target |-> target, fault |-> fault]

\* ADD-like width adjustment: inputs zero-extended to w3 when it is wider,
\* the result truncated to w3 when it is narrower.
BinaryOp(mn, a, b) ==
    CASE mn = "ADD" -> BvAdd(a, b)
      [] mn = "SUB" -> BvSub(a, b)
      [] mn = "MUL" -> BvMul(a, b)
      [] mn = "AND" -> BvAnd(a, b)
      [] mn = "OR" -> BvOr(a, b)
      [] mn = "XOR" -> BvXor(a, b)
      [] mn = "DIV" -> BvUdiv(a, b)
      [] mn = "MOD" -> BvUrem(a, b)
      [] mn = "SDIV" -> BvSdiv(a, b)
      [] mn = "SMOD" -> BvSmod(a, b)

Binary(regs, i) ==
    (CHOOSE it \in {(CHOOSE it \in {(CHOOSE it \in {Outcome(WriteOperand(regs, i.o3, r), <<>>, "")
        : r \in {Fit(BinaryOp(i.mn, a, b), i.o3.size)}} : TRUE)
        : b \in {Widen(ReadOperand(regs, i.o2), i.o3.size)}} : TRUE)
        : a \in {Widen(ReadOperand(regs, i.o1), i.o3.size)}} : TRUE)

\* A mutation of ZeroDivisor: the divisor is not looked at.
AnyDivisor(regs, i) == FALSE

ZeroDivisor(regs, i) == IsZero(ReadOperand(regs, i.o2))

\* The divisions raise the zero-division fault on a zero divisor.
Division(regs, i) ==
    IF ZeroDivisor(regs, i) THEN Outcome(regs, <<>>, "ZeroDivision")
    ELSE Binary(regs, i)

\* BSH: the second operand is signed; positive shifts left, negative shifts
\* right by its magnitude.
BarrelShift(x, y) ==
    IF IsNegative(y)
    THEN BvLshrBy(x, ShiftAmount(BvNeg(y), Len(x)))
    ELSE BvShl(x, ShiftAmount(y, Len(x)))

Bsh(regs, i) ==
    (CHOOSE it \in {(CHOOSE it \in {(CHOOSE it \in {Outcome(WriteOperand(regs, i.o3, r), <<>>, "")
        : r \in {Fit(BarrelShift(a, b), i.o3.size)}} : TRUE)
        : b \in {ReadOperand(regs, i.o2)}} : TRUE)
        : a \in {Widen(ReadOperand(regs, i.o1), i.o3.size)}} : TRUE)

Str(regs, i) ==
    (CHOOSE it \in {Outcome(WriteOperand(regs, i.o3, a), <<>>, "")
        : a \in {ReadOperand(regs, i.o1)}} : TRUE)

Bisz(regs, i) ==
    Outcome(WriteOperand(regs, i.o3,
                IF IsZero(ReadOperand(regs, i.o1)) THEN Bits(1, i.o3.size)
                ELSE Zeros(i.o3.size)),
            <<>>, "")

\* JCC: a nonzero condition transfers control to the target operand's value.
Jcc(regs, i) ==
    IF IsZero(ReadOperand(regs, i.o1)) THEN Outcome(regs, <<>>, "")
    ELSE Outcome(regs, ReadOperand(regs, i.o3), "")

\* The dispatch on the mnemonic.
ExecuteInstr(regs, i) ==
    CASE i.mn \in {"ADD", "SUB", "MUL", "AND", "OR", "XOR"} -> Binary(regs, i)
      [] i.mn \in {"DIV", "MOD", "SDIV", "SMOD"} -> Division(regs, i)
      [] i.mn = "BSH" -> Bsh(regs, i)
      [] i.mn = "STR" -> Str(regs, i)
      [] i.mn = "BISZ" -> Bisz(regs, i)
      [] i.mn = "JCC" -> Jcc(regs, i)
      [] i.mn = "UNDEF" -> Outcome(WriteOperand(regs, i.o3, Zeros(i.o3.size)), <<>>, "")
      [] i.mn = "UNKN" -> Outcome(regs, <<>>, "Unknown")
      [] OTHER -> Outcome(regs, <<>>, "")

\* Memory is read and written a byte at a time, little-endian; a byte that
\* was never written reads as zero.
ReadByte(mem, address) == IF address \in DOMAIN mem THEN mem[address] ELSE Zeros(8)

RECURSIVE ReadMemory(_, _, _)
ReadMemory(mem, address, size) ==
    IF size <= 0 THEN <<>>
    ELSE ReadByte(mem, address)
            \o ReadMemory(mem, BvAdd(address, Bits(1, Len(address))), size - 8)

RECURSIVE WriteMemory(_, _, _)
WriteMemory(mem, address, value) ==
    IF value = <<>> THEN mem
    ELSE WriteMemory(Put(mem, address, SubSeq(value, 1, 8)),
                     BvAdd(address, Bits(1, Len(address))), SubSeq(value, 9, Len(value)))

\* LDM(addr, _, dst): load w3 bits starting at addr.
Ldm(regs, mem, i) ==
    (CHOOSE it \in {Outcome(WriteOperand(regs, i.o3, ReadMemory(mem, a, i.o3.size)), <<>>, "")
        : a \in {ReadOperand(regs, i.o1)}} : TRUE)

\* STM(src, _, addr): store w1 bits starting at addr; the memory after any
\* other instruction is the memory before it.
Stm(mem, regs, i) ==
    IF i.mn = "STM"
    THEN WriteMemory(mem, ReadOperand(regs, i.o3), ReadOperand(regs, i.o1))
    ELSE mem

\* The dispatch with the memory at hand.
ExecuteMem(regs, mem, i) == IF i.mn = "LDM" THEN Ldm(regs, mem, i) ELSE ExecuteInstr(regs, i)

\* The x86 translator.  A native instruction has a mnemonic, operands, an
\* address and a size; its IR instructions take the addresses
\* (address << 8) | 0, 1, 2, ...
Asm(mnemonic, operands, address, size) ==
    [mnemonic |-> mnemonic, operands |-> operands, address |-> address, size |-> size]

Tmp(k, size) == Reg("t" \o ToString(k), size)

\* ZF = BISZ(result), the result being the low half of the wide temporary.
ZeroFlag(size) ==
    <<Instr("STR", Tmp(0, 2 * size), Empty, Tmp(1, size)),
      Instr("BISZ", Tmp(1, size), Empty, Reg("zf", 1))>>

LiftMov(dst, src) ==
    <<Instr("STR", src, Empty, Tmp(0, dst.size)), Instr("STR", Tmp(0, dst.size), Empty, dst)>>

LiftSub(r1, r2) ==
    <<Instr("SUB", r1, r2, Tmp(0, 2 * r1.size)), Instr("STR", Tmp(0, 2 * r1.size), Empty, r1)>>

LiftCmp(r1, r2) == <<Instr("SUB", r1, r2, Tmp(0, 2 * r1.size))>> \o ZeroFlag(r1.size)

\* div r32: edx:eax divided by the operand, quotient to eax, remainder to edx.
LiftDiv(r) ==
    <<Instr("STR", Reg("edx", 32), Empty, Tmp(0, 64)),
      Instr("BSH", Tmp(0, 64), ImmB(Bits(32, 64)), Tmp(1, 64)),
      Instr("STR", Reg("eax", 32), Empty, Tmp(2, 64)),
      Instr("OR", Tmp(1, 64), Tmp(2, 64), Tmp(3, 64)),
      Instr("STR", r, Empty, Tmp(4, 64)),
      Instr("DIV", Tmp(3, 64), Tmp(4, 64), Tmp(5, 64)),
      Instr("MOD", Tmp(3, 64), Tmp(4, 64), Tmp(6, 64)),
      Instr("STR", Tmp(5, 64), Empty, Reg("eax", 32)),
      Instr("STR", Tmp(6, 64), Empty, Reg("edx", 32))>>

\* A mutation of TranslateAddress: the shift is made in the operand's own
\* width.
TranslateAddressNarrow(oprnd) ==
    IF oprnd.kind = "imm"
    THEN [instrs |-> <<>>, addr |-> ImmB(BvShl(Fit(oprnd.imm, oprnd.size), 8))]
    ELSE [instrs |-> <<Instr("STR", oprnd, Empty, Tmp(0, oprnd.size)),
                       Instr("BSH", Tmp(0, oprnd.size), ImmB(Bits(8, oprnd.size)),
                             Tmp(1, oprnd.size))>>,
          addr |-> Tmp(1, oprnd.size)]

\* control._translate_address: a register is widened by 8 bits and shifted
\* left by 8; an immediate is shifted when the instruction is lifted.
TranslateAddress(oprnd) ==
    IF oprnd.kind = "imm"
    THEN [instrs |-> <<>>, addr |-> ImmB(BvShl(Fit(oprnd.imm, oprnd.size + 8), 8))]
    ELSE [instrs |-> <<Instr("STR", oprnd, Empty, Tmp(0, oprnd.size + 8)),
                       Instr("BSH", Tmp(0, oprnd.size + 8), ImmB(Bits(8, oprnd.size + 8)),
                             Tmp(1, oprnd.size + 8))>>,
          addr |-> Tmp(1, oprnd.size + 8)]

\* control._translate_jmp
TranslateJmp(oprnd) ==
    (CHOOSE it \in {a.instrs \o <<Instr("JCC", ImmB(<<1>>), Empty, a.addr)>>
        : a \in {TranslateAddress(oprnd)}} : TRUE)

\* The condition "ne": the negation of the zero flag.
EvaluateNe == [instrs |-> <<Instr("BISZ", Reg("zf", 1), Empty, Tmp(2, 1))>>, cond |-> Tmp(2, 1)]

\* A mutation of TranslateJne: the jump is made on the zero flag itself.
TranslateJe(oprnd) ==
    (CHOOSE it \in {a.instrs \o <<Instr("JCC", Reg("zf", 1), Empty, a.addr)>>
        : a \in {TranslateAddress(oprnd)}} : TRUE)

\* control._translate_jcc with jcc_cond = "ne"
TranslateJne(oprnd) ==
    (CHOOSE it \in {a.instrs \o EvaluateNe.instrs \o <<Instr("JCC", EvaluateNe.cond, Empty, a.addr)>>
        : a \in {TranslateAddress(oprnd)}} : TRUE)

\* The stack pointer and the word size of the 32-bit mode.
Sp == Reg("esp", 32)

Ws == ImmB(Bits(4, 32))

Counter == Reg("ecx", 32)

\* A label of the builder, after the linking pass: the IR address of the
\* instruction it names.  The name is kept to tell it from a native target.
Label(name, address) == [kind |-> "imm", name |-> name, size |-> Len(address), imm |-> address]

\* instruction.address + instruction.size
EndAddress(asm) == BvAdd(asm.address, Bits(asm.size, Len(asm.address)))

\* control._translate_jecxz
TranslateJecxz(asm) ==
    (CHOOSE it \in {a.instrs \o <<Instr("BISZ", Counter, Empty, Tmp(3, 1)),
                      Instr("JCC", Tmp(3, 1), Empty, a.addr)>>
        : a \in {TranslateAddress(asm.operands[1])}} : TRUE)

\* A mutation of TranslateCall: the return address is stored before the
\* stack pointer is decremented.
TranslateCallStoreFirst(asm) ==
    (CHOOSE it \in {a.instrs \o <<Instr("STM", ImmB(EndAddress(asm)), Empty, Sp),
                      Instr("SUB", Sp, Ws, Tmp(3, Sp.size)),
                      Instr("STR", Tmp(3, Sp.size), Empty, Sp),
                      Instr("JCC", ImmB(<<1>>), Empty, a.addr)>>
        : a \in {TranslateAddress(asm.operands[1])}} : TRUE)

\* control._translate_call
TranslateCall(asm) ==
    (CHOOSE it \in {a.instrs \o <<Instr("SUB", Sp, Ws, Tmp(3, Sp.size)),
                      Instr("STR", Tmp(3, Sp.size), Empty, Sp),
                      Instr("STM", ImmB(EndAddress(asm)), Empty, Sp),
                      Instr("JCC", ImmB(<<1>>), Empty, a.addr)>>
        : a \in {TranslateAddress(asm.operands[1])}} : TRUE)

\* A mutation of TranslateRetX86: the pop count is left on the stack.
TranslateRetX86NoFree(asm) ==
    <<Instr("LDM", Sp, Empty, Tmp(4, Sp.size)),
      Instr("ADD", Sp, Ws, Tmp(3, Sp.size)),
      Instr("STR", Tmp(3, Sp.size), Empty, Sp),
      Instr("BSH", Tmp(4, Sp.size), ImmB(Bits(8, Sp.size)), Tmp(5, Sp.size + 8)),
      Instr("JCC", ImmB(<<1>>), Empty, Tmp(5, Sp.size + 8))>>

\* control._translate_ret
TranslateRetX86(asm) ==
    <<Instr("LDM", Sp, Empty, Tmp(4, Sp.size)),
      Instr("ADD", Sp, Ws, Tmp(3, Sp.size)),
      Instr("STR", Tmp(3, Sp.size), Empty, Sp)>>
    \o (IF Len(asm.operands) > 0
        THEN <<Instr("ADD", Sp, ImmB(Fit(asm.operands[1].imm, Sp.size)), Tmp(6, Sp.size)),
               Instr("STR", Tmp(6, Sp.size), Empty, Sp)>>
        ELSE <<>>)
    \o <<Instr("BSH", Tmp(4, Sp.size), ImmB(Bits(8, Sp.size)), Tmp(5, Sp.size + 8)),
         Instr("JCC", ImmB(<<1>>), Empty, Tmp(5, Sp.size + 8))>>

\* control._translate_loop
TranslateLoop(asm) ==
    (CHOOSE it \in {a.instrs \o <<Instr("STR", Counter, Empty, Tmp(3, Counter.size)),
                      Instr("SUB", Tmp(3, Counter.size), ImmB(Bits(1, Counter.size)), Counter),
                      Instr("JCC", Counter, Empty, a.addr)>>
        : a \in {TranslateAddress(asm.operands[1])}} : TRUE)

\* The exit of loope and loopne: (address + size) << 8, 8 bits wider.
ExitAddress(asm) == ImmB(BvShl(Fit(EndAddress(asm), Len(asm.address) + 8), 8))

\* control._translate_loopne
TranslateLoopne(asm) ==
    (CHOOSE it \in {a.instrs \o <<Instr("STR", Counter, Empty, Tmp(3, Counter.size)),
                      Instr("SUB", Tmp(3, Counter.size), ImmB(Bits(1, Counter.size)), Counter),
                      Instr("BISZ", Counter, Empty, Tmp(4, 1)),
                      Instr("BISZ", Reg("zf", 1), Empty, Tmp(5, 1)),
                      Instr("XOR", Tmp(4, 1), ImmB(<<1>>), Tmp(6, 1)),
                      Instr("AND", Tmp(6, 1), Tmp(5, 1), Tmp(7, 1)),
                      Instr("JCC", Tmp(7, 1), Empty,
                            Label("keep_looping", IrAddress(asm.address, Len(a.instrs) + 8))),
                      Instr("JCC", ImmB(Bits(1, Counter.size)), Empty, ExitAddress(asm)),
                      Instr("JCC", ImmB(Bits(1, Counter.size)), Empty, a.addr)>>
        : a \in {TranslateAddress(asm.operands[1])}} : TRUE)

\* A mutation of TranslateLoope: the branch is made on ZF = 0.
TranslateLoopeOnClear(asm) == TranslateLoopne(asm)

\* control._translate_loope
TranslateLoope(asm) ==
    (CHOOSE it \in {a.instrs \o <<Instr("STR", Counter, Empty, Tmp(3, Counter.size)),
                      Instr("SUB", Tmp(3, Counter.size), ImmB(Bits(1, Counter.size)), Counter),
                      Instr("BISZ", Counter, Empty, Tmp(4, 1)),
                      Instr("BISZ", Reg("zf", 1), Empty, Tmp(5, 1)),
                      Instr("XOR", Tmp(5, 1), ImmB(<<1>>), Tmp(8, 1)),
                      Instr("XOR", Tmp(4, 1), ImmB(<<1>>), Tmp(6, 1)),
                      Instr("AND", Tmp(6, 1), Tmp(8, 1), Tmp(7, 1)),
                      Instr("JCC", Tmp(7, 1), Empty,
                            Label("keep_looping", IrAddress(asm.address, Len(a.instrs) + 9))),
                      Instr("JCC", ImmB(Bits(1, Counter.size)), Empty, ExitAddress(asm)),
                      Instr("JCC", ImmB(Bits(1, Counter.size)), Empty, a.addr)>>
        : a \in {TranslateAddress(asm.operands[1])}} : TRUE)

X86Translate(asm) ==
    CASE asm.mnemonic = "mov" -> LiftMov(asm.operands[1], asm.operands[2])
      [] asm.mnemonic = "add" ->
            LiftAdd(asm.operands[1], asm.operands[2]) \o ZeroFlag(asm.operands[1].size)
      [] asm.mnemonic = "sub" ->
            LiftSub(asm.operands[1], asm.operands[2]) \o ZeroFlag(asm.operands[1].size)
      [] asm.mnemonic = "cmp" -> LiftCmp(asm.operands[1], asm.operands[2])
      [] asm.mnemonic = "div" -> LiftDiv(asm.operands[1])
      [] asm.mnemonic = "jmp" -> TranslateJmp(asm.operands[1])
      [] asm.mnemonic = "jne" -> TranslateJne(asm.operands[1])
      [] asm.mnemonic = "jecxz" -> TranslateJecxz(asm)
      [] asm.mnemonic = "call" -> TranslateCall(asm)
      [] asm.mnemonic = "ret" -> TranslateRetX86(asm)
      [] asm.mnemonic = "loop" -> TranslateLoop(asm)
      [] asm.mnemonic \in {"loopne", "loopnz"} -> TranslateLoopne(asm)
      [] asm.mnemonic \in {"loope", "loopz"} -> TranslateLoope(asm)

\* The IR instructions of one native instruction, with their addresses.
Addressed(instrs, native) ==
    [k \in 1..Len(instrs) |-> [instr |-> instrs[k], address |-> IrAddress(native, k - 1)]]

\* ReilEmulatorTests.__translate: one ReilSequence per native instruction,
\* each but the last given the address of the one after it.  The native
\* instruction is kept beside its sequence (history).
ReilSequence(asm_instrs, n) ==
    [address |-> IrAddress(asm_instrs[n].address, 0),
     asm |-> asm_instrs[n],
     instrs |-> Addressed(X86Translate(asm_instrs[n]), asm_instrs[n].address),
     next_sequence_address |->
        IF n < Len(asm_instrs) THEN IrAddress(asm_instrs[n + 1].address, 0) ELSE <<>>]

TestTranslate(asm_instrs) == [n \in 1..Len(asm_instrs) |-> ReilSequence(asm_instrs, n)]

\* ReilEmulatorTests.__set_address followed by translator.translate of each
\* instruction, the results concatenated into one list.
RECURSIVE TranslateList(_, _)
TranslateList(asm_instrs, address) ==
    IF asm_instrs = <<>> THEN <<>>
    ELSE Addressed(X86Translate(asm_instrs[1]), address)
            \o TranslateList(Tail(asm_instrs), BvAdd(address, Bits(1, 32)))

\* ReilContainer.fetch: the instruction at an IR address, if there is one.
HasInstruction(cont, address) ==
    \E n \in 1..Len(cont) :
        /\ cont[n].address = IrAddress(NativeOf(address), 0)
        /\ SubIndexOf(address) < Len(cont[n].instrs)

Fetch(cont, address) ==
    LET n == CHOOSE n \in 1..Len(cont) : cont[n].address = IrAddress(NativeOf(address), 0)
    IN  cont[n].instrs[SubIndexOf(address) + 1]

\* The address after an instruction: the next sub-index of its sequence,
\* or the sequence's next_sequence_address after its last instruction.
GetNextAddress(cont, address) ==
    LET n == CHOOSE n \in 1..Len(cont) : cont[n].address = IrAddress(NativeOf(address), 0)
    IN  IF SubIndexOf(address) + 1 < Len(cont[n].instrs)
        THEN IrAddress(NativeOf(address), SubIndexOf(address) + 1)
        ELSE cont[n].next_sequence_address

\* emulator.set_instruction_pre_handler(handler, parameter) and
\* set_instruction_post_handler(handler, parameter), before a run.
SetInstructionPreHandler(parameter) ==
    /\ run = "idle"
    /\ handlers' = [handlers EXCEPT !.pre = parameter]
    /\ UNCHANGED <<run, container, registers, memory, ip, calls, emLast>>
    /\ UNCHANGED <<solverVars, trVars>>

SetInstructionPostHandler(parameter) ==
    /\ run = "idle"
    /\ handlers' = [handlers EXCEPT !.post = parameter]
    /\ UNCHANGED <<run, container, registers, memory, ip, calls, emLast>>
    /\ UNCHANGED <<solverVars, trVars>>

\* A handler call: handler(emulator, instruction, parameter).
Call(which, rec, parameter) ==
    [which |-> which, emulator |-> "self", instruction |-> rec, parameter |-> parameter]

\* The handlers run at native instruction boundaries: the pre-handler when
\* the native address differs from that of the instruction executed before,
\* the post-handler when it differs from that of the instruction to come.
\* A mutation of PreCalls: the pre-handler runs before every IR instruction.
PreCallsEachInstr(rec) ==
    IF handlers.pre # "" THEN <<Call("pre", rec, handlers.pre)>> ELSE <<>>

PreCalls(rec) ==
    IF handlers.pre # ""
        /\ (emLast.address = <<>> \/ NativeOf(emLast.address) # NativeOf(rec.address))
    THEN <<Call("pre", rec, handlers.pre)>> ELSE <<>>

PostCalls(rec, next) ==
    IF handlers.post # "" /\ (next = <<>> \/ NativeOf(next) # NativeOf(rec.address))
    THEN <<Call("post", rec, handlers.post)>> ELSE <<>>

\* history: whether the instruction to execute is the first one executed of
\* its native instruction.
EntersInstruction(rec) ==
    \/ emLast.address = <<>>
    \/ NativeOf(emLast.address) # NativeOf(rec.address)
    \/ SubIndexOf(rec.address) = 0

\* One turn of the execution loop on the fetched instruction: pre-handler,
\* dispatch, post-handler, advance to next.  A fault ends the run.
Turn(rec, out, next) ==
    /\ registers' = out.registers
    /\ memory' = IF out.fault = "" THEN Stm(memory, registers, rec.instr) ELSE memory
    /\ emLast' = [instr |-> rec.instr, address |-> rec.address, before |-> registers,
                  taken |-> out.target # <<>>, memory |-> memory,
                  entry |-> IF EntersInstruction(rec) THEN registers ELSE emLast.entry,
                  entryMemory |-> IF EntersInstruction(rec) THEN memory
                                  ELSE emLast.entryMemory]
    /\ IF out.fault # ""
       THEN /\ run' = out.fault
            /\ calls' = calls \o PreCalls(rec)
            /\ UNCHANGED ip
       ELSE /\ calls' = calls \o PreCalls(rec) \o PostCalls(rec, next)
            /\ ip' = next
            /\ run' = IF next = <<>> THEN "done" ELSE run
    /\ UNCHANGED <<container, handlers, solverVars, trVars>>

\* emulator.execute(container, start, registers): the call, then one
\* instruction per step.
ExecuteCall(cont, start, regs) ==
    /\ run = "idle"
    /\ run' = "execute"
    /\ container' = cont
    /\ ip' = start
    /\ registers' = regs
    /\ UNCHANGED <<memory, handlers, calls, emLast, solverVars, trVars>>

\* A mutation of ExecuteStep: an address without an instruction ends the
\* run as if the program were over.
ExecuteStepNoFault ==
    /\ run = "execute"
    /\ IF ~HasInstruction(container, ip)
       THEN /\ run' = "done"
            /\ UNCHANGED <<container, registers, memory, ip, handlers, calls, emLast>>
            /\ UNCHANGED <<solverVars, trVars>>
       ELSE LET out == ExecuteMem(registers, memory, Fetch(container, ip).instr)
            IN  Turn(Fetch(container, ip), out,
                     IF out.target # <<>> THEN out.target ELSE GetNextAddress(container, ip))

ExecuteStep ==
    /\ run = "execute"
    /\ IF ~HasInstruction(container, ip)
       THEN /\ run' = "InvalidAddress"
            /\ UNCHANGED <<container, registers, memory, ip, handlers, calls, emLast>>
            /\ UNCHANGED <<solverVars, trVars>>
       ELSE LET out == ExecuteMem(registers, memory, Fetch(container, ip).instr)
            IN  Turn(Fetch(container, ip), out,
                     IF out.target # <<>> THEN out.target ELSE GetNextAddress(container, ip))

\* emulator.execute_lite(instructions, context): the instructions of the
\* list in order, ip being the address of the one to execute.
ExecuteLiteCall(instrs, context) ==
    /\ run = "idle"
    /\ instrs # <<>>
    /\ run' = "execute_lite"
    /\ container' = instrs
    /\ ip' = instrs[1].address
    /\ registers' = context
    /\ UNCHANGED <<memory, handlers, calls, emLast, solverVars, trVars>>

Position(instrs, address) == CHOOSE n \in 1..Len(instrs) : instrs[n].address = address

ExecuteLiteStep ==
    /\ run = "execute_lite"
    /\ LET n == Position(container, ip)
       IN  Turn(container[n], ExecuteMem(registers, memory, container[n].instr),
                IF n < Len(container) THEN container[n + 1].address ELSE <<>>)

\* The programs of the emulator's tests.
LoopBase == Word(2052, 32864)

LoopLabel == Word(2052, 32874)

LoopCount == 10

LoopProgram ==
    <<Asm("mov", <<Reg("eax", 32), ImmB(Bits(0, 32))>>, LoopBase, 5),
      Asm("mov", <<Reg("ebx", 32), ImmB(Bits(LoopCount, 32))>>, Word(2052, 32869), 5),
      Asm("add", <<Reg("eax", 32), ImmB(Bits(1, 32))>>, LoopLabel, 3),
      Asm("sub", <<Reg("ebx", 32), ImmB(Bits(1, 32))>>, Word(2052, 32877), 3),
      Asm("cmp", <<Reg("ebx", 32), ImmB(Bits(0, 32))>>, Word(2052, 32880), 3),
      Asm("jne", <<ImmB(LoopLabel)>>, Word(2052, 32883), 2)>>

DeadBeef == Word(57005, 48879)

NoRegs == [n \in {} |-> <<>>]

RegsOf(eax, ebx, edx) == [n \in {"eax", "ebx", "edx"} |->
                            CASE n = "eax" -> eax [] n = "ebx" -> ebx [] n = "edx" -> edx]

JmpProgram == <<Asm("jmp", <<Reg("eax", 32)>>, DeadBeef, 1)>>

MovProgram == <<Asm("mov", <<Reg("eax", 32), ImmB(DeadBeef)>>, DeadBeef, 1)>>

DivProgram == <<Asm("div", <<Reg("ebx", 32)>>, DeadBeef, 1)>>

\* test_mov
TestMov ==
    <<Asm("mov", <<Reg("eax", 32), ImmB(DeadBeef)>>, DeadBeef, 1),
      Asm("mov", <<Reg("al", 8), ImmB(Bits(18, 8))>>, DeadBeef, 1),
      Asm("mov", <<Reg("ah", 8), ImmB(Bits(52, 8))>>, DeadBeef, 1)>>

\* execute() as the tests call it: the loop, jmp eax to an address without
\* an instruction, a start address inside or outside the container, and
\* div ebx.
ExecuteCalls ==
    {[container |-> TestTranslate(LoopProgram), start |-> IrAddress(LoopBase, 0),
      registers |-> NoRegs],
     [container |-> TestTranslate(JmpProgram), start |-> IrAddress(DeadBeef, 0),
      registers |-> [n \in {"eax"} |-> Ones(32)]],
     [container |-> TestTranslate(MovProgram), start |-> IrAddress(DeadBeef, 0),
      registers |-> [n \in {"eax"} |-> Ones(32)]],
     [container |-> TestTranslate(DivProgram), start |-> IrAddress(DeadBeef, 0),
      registers |-> RegsOf(Bits(2, 32), Zeros(32), Bits(2, 32))],
     [container |-> TestTranslate(DivProgram), start |-> IrAddress(DeadBeef, 0),
      registers |-> RegsOf(Bits(2, 32), Bits(3, 32), Bits(2, 32))],
     [container |-> TestTranslate(MovProgram),
      start |-> IrAddress(BvAdd(DeadBeef, Bits(1, 32)), 0),
      registers |-> [n \in {"eax"} |-> Ones(32)]]}

\* Moves into eax and its sub-registers.
MaxMovs == 3

Movs ==
    {Asm("mov", <<Reg("eax", 32), ImmB(DeadBeef)>>, DeadBeef, 1),
     Asm("mov", <<Reg("al", 8), ImmB(Bits(18, 8))>>, DeadBeef, 1),
     Asm("mov", <<Reg("ah", 8), ImmB(Bits(52, 8))>>, DeadBeef, 1),
     Asm("mov", <<Reg("ax", 16), ImmB(Bits(22136, 16))>>, DeadBeef, 1),
     Asm("mov", <<Reg("al", 8), ImmB(Ones(8))>>, DeadBeef, 1),
     Asm("mov", <<Reg("ah", 8), ImmB(Zeros(8))>>, DeadBeef, 1)}

MovLists == UNION {[1..n -> Movs] : n \in 1..MaxMovs}

DivMnemonics == {"DIV", "SDIV", "MOD", "SMOD"}

Divisors == {Zeros(32), Bits(3, 32), Ones(32)}

\* execute_lite() as the tests call it: lists of moves, mov eax, ebx, the
\* lifted div ebx, and a division instruction given directly.
ExecuteLiteCalls ==
    {[instrs |-> TranslateList(l, DeadBeef), context |-> [n \in {"eax"} |-> Ones(32)]] :
        l \in MovLists}
    \cup {[instrs |-> TranslateList(<<Asm("mov", <<Reg("eax", 32), Reg("ebx", 32)>>,
                                          DeadBeef, 1)>>, DeadBeef),
           context |-> NoRegs]}
    \cup {[instrs |-> TranslateList(DivProgram, DeadBeef),
           context |-> RegsOf(Bits(2, 32), d, Bits(2, 32))] : d \in Divisors}
    \cup {[instrs |-> <<[instr |-> Instr(mn, Reg("eax", 32), Reg("ebx", 32), Tmp(0, 32)),
                         address |-> IrAddress(DeadBeef, 0)]>>,
           context |-> RegsOf(e, d, Zeros(32))] :
            mn \in DivMnemonics, d \in Divisors, e \in {Bits(2, 32), BvNeg(Bits(7, 32))}}

Execute == \E c \in ExecuteCalls : ExecuteCall(c.container, c.start, c.registers)

ExecuteLite == \E c \in ExecuteLiteCalls : ExecuteLiteCall(c.instrs, c.context)

HandlerParameters == {"paramter"}

(***************************************************************************)
(* SpecEmu: the emulator running the programs of its tests.                *)
(***************************************************************************)
InitEmu == SolverInitOf("z3", FALSE) /\ TranslatorInit("x86_32") /\ EmulatorInit

NextEmu ==
    \/ \E p \in HandlerParameters : SetInstructionPreHandler(p)
    \/ \E p \in HandlerParameters : SetInstructionPostHandler(p)
    \/ Execute
    \/ ExecuteLite
    \/ ExecuteStep
    \/ ExecuteLiteStep

SpecEmu == InitEmu /\ [][NextEmu]_vars

\* SpecExecute: execute() alone.  It is a loop of the calling thread, which
\* keeps taking turns until the call returns or raises.
NextExecute ==
    \/ \E p \in HandlerParameters : SetInstructionPreHandler(p)
    \/ \E p \in HandlerParameters : SetInstructionPostHandler(p)
    \/ Execute
    \/ ExecuteStep

SpecExecute == InitEmu /\ [][NextExecute]_vars /\ WF_vars(ExecuteStep)

(***************************************************************************)
(* SpecControl: execute() on a lifted control-transfer instruction, with   *)
(* an instruction at the address after it and one at its target.          *)
(***************************************************************************)
\* emulator.execute(container, start, registers, memory)
ExecuteWithMemory(cont, start, regs, mem) ==
    /\ run = "idle"
    /\ run' = "execute"
    /\ container' = cont
    /\ ip' = start
    /\ registers' = regs
    /\ memory' = mem
    /\ UNCHANGED <<handlers, calls, emLast, solverVars, trVars>>

ControlBase == LoopBase

Targets == {Word(2052, 33024), DeadBeef}

StackTop == Word(49151, 65520)

\* The control-transfer instructions, each with its encoded size.
ControlInstrs(t) ==
    {Asm("jmp", <<ImmB(t)>>, ControlBase, 5),
     Asm("jmp", <<Reg("eax", 32)>>, ControlBase, 2),
     Asm("jne", <<ImmB(t)>>, ControlBase, 2),
     Asm("jne", <<Reg("eax", 32)>>, ControlBase, 2),
     Asm("jecxz", <<ImmB(t)>>, ControlBase, 2),
     Asm("call", <<ImmB(t)>>, ControlBase, 5),
     Asm("call", <<Reg("eax", 32)>>, ControlBase, 2),
     Asm("call", <<Sp>>, ControlBase, 2),
     Asm("ret", <<>>, ControlBase, 1),
     Asm("ret", <<ImmB(Bits(8, 16))>>, ControlBase, 3),
     Asm("ret", <<ImmB(Ones(16))>>, ControlBase, 3),
     Asm("loop", <<ImmB(t)>>, ControlBase, 2),
     Asm("loope", <<ImmB(t)>>, ControlBase, 2),
     Asm("loopz", <<ImmB(t)>>, ControlBase, 2),
     Asm("loopne", <<ImmB(t)>>, ControlBase, 2),
     Asm("loopnz", <<ImmB(t)>>, ControlBase, 2)}

\* The instruction, the one after it and the one at its target.
ControlProgram(asm, t) ==
    <<asm,
      Asm("mov", <<Reg("edx", 32), ImmB(Bits(1, 32))>>, EndAddress(asm), 5),
      Asm("mov", <<Reg("edx", 32), ImmB(Bits(2, 32))>>, t, 5)>>

ControlRegs(t, ecx, zf) ==
    [n \in {"eax", "ecx", "esp", "zf"} |->
        CASE n = "eax" -> t [] n = "ecx" -> ecx [] n = "esp" -> StackTop [] n = "zf" -> zf]

\* The return address at the top of the stack.
StackWith(t) == WriteMemory(NoMemory, StackTop, t)

ControlCallsTo(t) ==
    {[container |-> TestTranslate(ControlProgram(asm, t)), start |-> IrAddress(ControlBase, 0),
      registers |-> ControlRegs(t, ecx, zf), memory |-> StackWith(t)] :
        asm \in ControlInstrs(t), ecx \in {Zeros(32), Bits(1, 32), Bits(2, 32)},
        zf \in {<<0>>, <<1>>}}

ControlCalls == UNION {ControlCallsTo(t) : t \in Targets}

ExecuteControl ==
    \E c \in ControlCalls : ExecuteWithMemory(c.container, c.start, c.registers, c.memory)

NextControl ==
    \/ ExecuteControl
    \/ ExecuteStep

SpecControl == InitEmu /\ [][NextControl]_vars

(***************************************************************************)
(* The expression algebra of smtlibv2: Symbol, BitVec, Bool, Array_ and    *)
(* the functions UGT, UGE, ULT, ULE, UDIV, UREM.  A Symbol's value is the  *)
(* text of its operator or literal; its children are kept beside it.       *)
(***************************************************************************)
\* A text: a name or an operator (no digits), or a literal "#x..."/"#b..."
\* with its digits, most significant first.
Text(prefix, digits) == <<prefix, digits>>

Prefix(t) == t[1]

Digits(t) == t[2]

\* A Python value: its class, and for a Symbol its size, value and children,
\* for a number the number.
PyInt(v) == <<"int", 0, Text("", <<>>), <<>>, v>>

PySymbol(ty, size, value, children) == <<ty, size, value, children, 0>>

PyRaise(what) == <<"raise", 0, Text(what, <<>>), <<>>, 0>>

TypeOf(e) == e[1]

SizeOf(e) == e[2]

ValueOf(e) == e[3]

ChildrenOf(e) == e[4]

NumberOf(e) == e[5]

\* val & ((1 << size) - 1), as bits
MaskBits(val, size) == IF val >= 0 THEN Bits(val, size) ELSE BvNeg(Bits(0 - val, size))

\* '%x' % n: the hexadecimal digits of the number, without leading zeros.
HexDigits(bits) ==
    LET n == (Len(bits) + 3) \div 4
        padded == bits \o Zeros(4 * n - Len(bits))
        all == [k \in 1..n |-> ToInt(SubSeq(padded, 4 * (n - k) + 1, 4 * (n - k) + 4))]
        lead == IF \E k \in 1..n : all[k] # 0
                THEN CHOOSE k \in 1..n : all[k] # 0 /\ \A j \in 1..(k - 1) : all[j] = 0
                ELSE n
    IN  SubSeq(all, lead, n)

\* '%0*x' % (width, n): at least width digits, zeros in front.
PadZeros(digits, width) ==
    IF Len(digits) >= width THEN digits ELSE Zeros(width - Len(digits)) \o digits

\* BitVec.cast
BitVecCast(self, val) ==
    IF TypeOf(val) = "int"
    THEN IF SizeOf(self) = 1
         THEN PySymbol("BitVec", SizeOf(self), Text("#b", <<NumberOf(val) % 2>>), <<>>)
         ELSE PySymbol("BitVec", SizeOf(self),
                       Text("#x", PadZeros(HexDigits(MaskBits(NumberOf(val), SizeOf(self))),
                                           SizeOf(self) \div 4)), <<>>)
    ELSE IF TypeOf(val) = "Bool" THEN PyRaise("NotImplementedError")
    ELSE IF TypeOf(val) = "BitVec" /\ SizeOf(val) = SizeOf(self) THEN val
    ELSE PyRaise("AssertionError")

\* What each method of BitVec builds: the operator, the class of the result
\* and whether the cast operand comes first.
Method(op, ty, swapped) == <<op, ty, swapped>>

BitVecMethods ==
    [m \in {"__add__", "__sub__", "__mul__", "__mod__", "__lshift__", "__rshift__",
            "__and__", "__xor__", "__or__", "__div__",
            "__radd__", "__rsub__", "__rmul__", "__rmod__", "__rdiv__", "__rlshift__",
            "__rrshift__", "__rand__", "__rxor__", "__ror__",
            "__lt__", "__le__", "__eq__", "__gt__", "__ge__",
            "ugt", "uge", "ult", "ule", "udiv", "rudiv", "urem", "rrem", "smod"} |->
        CASE m = "__add__" -> Method("bvadd", "BitVec", FALSE)
          [] m = "__sub__" -> Method("bvsub", "BitVec", FALSE)
          [] m = "__mul__" -> Method("bvmul", "BitVec", FALSE)
          [] m = "__mod__" -> Method("bvsmod", "BitVec", FALSE)
          [] m = "__lshift__" -> Method("bvshl", "BitVec", FALSE)
          [] m = "__rshift__" -> Method("bvlshr", "BitVec", FALSE)
          [] m = "__and__" -> Method("bvand", "BitVec", FALSE)
          [] m = "__xor__" -> Method("bvxor", "BitVec", FALSE)
          [] m = "__or__" -> Method("bvor", "BitVec", FALSE)
          [] m = "__div__" -> Method("bvsdiv", "BitVec", FALSE)
          [] m = "__radd__" -> Method("bvadd", "BitVec", TRUE)
          [] m = "__rsub__" -> Method("bvsub", "BitVec", TRUE)
          [] m = "__rmul__" -> Method("bvmul", "BitVec", FALSE)
          [] m = "__rmod__" -> Method("bvmod", "BitVec", TRUE)
          [] m = "__rdiv__" -> Method("bvsdiv", "BitVec", TRUE)
          [] m = "__rlshift__" -> Method("bvshl", "BitVec", TRUE)
          [] m = "__rrshift__" -> Method("bvlshr", "BitVec", TRUE)
          [] m = "__rand__" -> Method("bvand", "BitVec", FALSE)
          [] m = "__rxor__" -> Method("bvxor", "BitVec", FALSE)
          [] m = "__ror__" -> Method("bvor", "BitVec", FALSE)
          [] m = "__lt__" -> Method("bvslt", "Bool", FALSE)
          [] m = "__le__" -> Method("bvsle", "Bool", FALSE)
          [] m = "__eq__" -> Method("=", "Bool", FALSE)
          [] m = "__gt__" -> Method("bvsgt", "Bool", FALSE)
          [] m = "__ge__" -> Method("bvsge", "Bool", FALSE)
          [] m = "ugt" -> Method("bvugt", "Bool", FALSE)
          [] m = "uge" -> Method("bvuge", "Bool", FALSE)
          [] m = "ult" -> Method("bvult", "Bool", FALSE)
          [] m = "ule" -> Method("bvule", "Bool", FALSE)
          [] m = "udiv" -> Method("bvudiv", "BitVec", FALSE)
          [] m = "rudiv" -> Method("bvudiv", "BitVec", TRUE)
          [] m = "urem" -> Method("bvurem", "BitVec", FALSE)
          [] m = "rrem" -> Method("bvurem", "BitVec", TRUE)
          [] m = "smod" -> Method("bvsmod", "BitVec", TRUE)]

\* self.m(other) for a BitVec self.  A method the class does not have is an
\* AttributeError; __ne__ negates __eq__.
CallMethod(self, m, other) ==
    IF TypeOf(self) # "BitVec" THEN PyRaise("AttributeError")
    ELSE IF m = "__ne__"
    THEN (CHOOSE it \in {IF TypeOf(c) = "raise" THEN c
            ELSE PySymbol("Bool", 0, Text("not", <<>>),
                          <<PySymbol("Bool", 0, Text("=", <<>>), <<self, c>>)>>)
             : c \in {BitVecCast(self, other)}} : TRUE)
    ELSE IF m \notin DOMAIN BitVecMethods THEN PyRaise("AttributeError")
    ELSE (CHOOSE it \in {IF TypeOf(c) = "raise" THEN c
            ELSE PySymbol(BitVecMethods[m][2],
                          IF BitVecMethods[m][2] = "BitVec" THEN SizeOf(self) ELSE 0,
                          Text(BitVecMethods[m][1], <<>>),
                          IF BitVecMethods[m][3] THEN <<c, self>> ELSE <<self, c>>)
             : c \in {BitVecCast(self, other)}} : TRUE)

\* Python's binary operators: the left operand's method, or, when the left
\* operand is a number, the right operand's reflected method.
OperatorMethods ==
    [s \in {"+", "-", "*", "%", "<<", ">>", "&", "^", "|", "/",
            "<", "<=", "==", "!=", ">", ">="} |->
        CASE s = "+" -> <<"__add__", "__radd__">>
          [] s = "-" -> <<"__sub__", "__rsub__">>
          [] s = "*" -> <<"__mul__", "__rmul__">>
          [] s = "%" -> <<"__mod__", "__rmod__">>
          [] s = "<<" -> <<"__lshift__", "__rlshift__">>
          [] s = ">>" -> <<"__rshift__", "__rrshift__">>
          [] s = "&" -> <<"__and__", "__rand__">>
          [] s = "^" -> <<"__xor__", "__rxor__">>
          [] s = "|" -> <<"__or__", "__ror__">>
          [] s = "/" -> <<"__div__", "__rdiv__">>
          [] s = "<" -> <<"__lt__", "__gt__">>
          [] s = "<=" -> <<"__le__", "__ge__">>
          [] s = "==" -> <<"__eq__", "__eq__">>
          [] s = "!=" -> <<"__ne__", "__ne__">>
          [] s = ">" -> <<"__gt__", "__lt__">>
          [] s = ">=" -> <<"__ge__", "__le__">>]

PyOperator(s, a, b) ==
    IF TypeOf(a) = "BitVec" THEN CallMethod(a, OperatorMethods[s][1], b)
    ELSE CallMethod(b, OperatorMethods[s][2], a)

\* "not x": Bool.__nonzero__ raises.
PyNot(x) == IF TypeOf(x) = "raise" THEN x ELSE PyRaise("NotImplementedError")

\* UGT, UGE, ULT, ULE, UDIV and UREM with at least one BitVec operand.
Named(f, a, b) ==
    CASE f = "UGT" -> IF TypeOf(a) = "BitVec" THEN CallMethod(a, "ugt", b)
                      ELSE PyNot(CallMethod(b, "ule", a))
      [] f = "UGE" -> IF TypeOf(a) = "BitVec" THEN CallMethod(a, "uge", b)
                      ELSE PyNot(CallMethod(b, "ult", a))
      [] f = "ULT" -> IF TypeOf(a) = "BitVec" THEN CallMethod(a, "ult", b)
                      ELSE PyNot(CallMethod(b, "uge", a))
      [] f = "ULE" -> IF TypeOf(a) = "BitVec" THEN CallMethod(a, "ule", b)
                      ELSE PyNot(CallMethod(b, "ugt", a))
      [] f = "UDIV" -> IF TypeOf(a) = "BitVec" THEN CallMethod(a, "udiv", b)
                       ELSE CallMethod(a, "rudiv", b)
      [] f = "UREM" -> IF TypeOf(a) = "BitVec" THEN CallMethod(a, "urem", b)
                       ELSE CallMethod(b, "rurem", a)

\* Array_.cast_key and Array_.cast_value
CastKey(self, val) ==
    IF TypeOf(val) = "int"
    THEN PySymbol("BitVec", SizeOf(self),
                  Text("#x", PadZeros(HexDigits(MaskBits(NumberOf(val), SizeOf(self))), SizeOf(self) \div 4)),
                  <<>>)
    ELSE IF TypeOf(val) = "Bool" THEN PyRaise("NotImplementedError")
    ELSE IF TypeOf(val) = "BitVec" /\ SizeOf(val) = SizeOf(self) THEN val
    ELSE PyRaise("AssertionError")

CastValue(self, val) ==
    IF TypeOf(val) = "int"
    THEN PySymbol("BitVec", 8,
                  Text("#x", PadZeros(HexDigits(MaskBits(NumberOf(val), SizeOf(self))), 2)), <<>>)
    ELSE IF TypeOf(val) = "Bool" THEN PyRaise("NotImplementedError")
    ELSE IF TypeOf(val) = "BitVec" /\ SizeOf(val) = 8 THEN val
    ELSE PyRaise("AssertionError")

\* Array_.store
ArrayStore(self, key, value) ==
    (CHOOSE it \in {(CHOOSE it \in {IF TypeOf(k) = "raise" THEN k
        ELSE IF TypeOf(v) = "raise" THEN v
        ELSE PySymbol("Array_", SizeOf(self), Text("store", <<>>), <<self, k, v>>)
        : v \in {CastValue(self, value)}} : TRUE)
        : k \in {CastKey(self, key)}} : TRUE)

\* The operands: vectors and arrays by name, and integer literals.
Widths == {1, 8, 16}

Literals == {0, 1, 5, 255, 300, 65536 + 7, 0 - 1}

Vectors == {PySymbol("BitVec", w, Text("x", <<>>), <<>>) : w \in Widths}

ArraySizes == {16, 32}

Arrays == {PySymbol("Array_", n, Text("MEM", <<>>), <<>>) : n \in ArraySizes}

Mixed ==
    {<<x, PyInt(n)>> : x \in Vectors, n \in Literals}
    \cup {<<PyInt(n), x>> : x \in Vectors, n \in Literals}
    \cup {<<x, x>> : x \in Vectors}

Applied(op, args, ret) ==
    /\ lastOp' = [op |-> op, args |-> args]
    /\ lastRet' = ret
    /\ UNCHANGED <<kind, unknownOk, status, sid, stack, declarations, constraints, arrays,
                   proc, saved, lastSent>>
    /\ UNCHANGED <<trVars, emuVars>>

Operator == \E s \in DOMAIN OperatorMethods, p \in Mixed : Applied(s, p, PyOperator(s, p[1], p[2]))

NamedForm ==
    \E f \in {"UGT", "UGE", "ULT", "ULE", "UDIV", "UREM"}, p \in Mixed :
        Applied(f, p, Named(f, p[1], p[2]))

Store ==
    \E a \in Arrays, k \in Literals \ {0 - 1}, v \in Literals :
        Applied("store", <<a, PyInt(k), PyInt(v)>>, ArrayStore(a, PyInt(k), PyInt(v)))

(***************************************************************************)
(* SpecAlgebra: expressions built from a vector or an array and a literal. *)
(***************************************************************************)
InitAlgebra == SolverInitOf("z3", FALSE) /\ TranslatorInit("x86_32") /\ EmulatorInit

NextAlgebra ==
    \/ Operator
    \/ NamedForm
    \/ Store

SpecAlgebra == InitAlgebra /\ [][NextAlgebra]_vars

(***************************************************************************)
(* Properties of the supervisor.                                           *)
(***************************************************************************)
Succeeded == lastRet'.kind # "raise"

\* C1: a pop() that matches a push() restores the identifier counter, the
\* declaration map together with the symbols it holds (the contents of the
\* Array objects included), and the constraint list, to what they were when
\* push() was called, and leaves the status "unknown".
C1_PopRestores ==
    [][(lastOp'.op = "pop" /\ Succeeded) =>
          /\ sid' = Last(saved).sid
          /\ Deep(declarations', arrays') = Last(saved).decls
          /\ constraints' = Last(saved).cons
          /\ status' = "unknown"]_vars

CheckSatsIn(sent) == Cardinality({i \in 1..Len(sent) : sent[i].cmd = "check-sat"})

StartsRun ==
    \/ lastOp.op \in {"init", "add", "reset"}
    \/ lastOp.op = "pop" /\ lastRet.kind # "raise"

\* C2 (as stated): in a run of consecutive check() calls that follows
\* construction, add, pop or reset, the first call sends exactly one
\* (check-sat), and every later call of the run sends none and returns what
\* the call before it returned.
C2_OneCheckSatPerRun ==
    [][lastOp'.op = "check" =>
          /\ StartsRun => CheckSatsIn(lastSent') = 1
          /\ lastOp.op = "check" => (CheckSatsIn(lastSent') = 0 /\ lastRet' = lastRet)]_vars

\* C2 (amended): check() sends one (check-sat) exactly when the cached
\* status is "unknown", and otherwise sends nothing and returns the cached
\* status; so once a call of a run of consecutive check() calls has returned
\* "sat" or "unsat", every later call of the run sends nothing and returns
\* that same value.
C2_CheckSatOnlyWhileUnknown ==
    [][lastOp'.op = "check" =>
          /\ CheckSatsIn(lastSent') = (IF status = "unknown" THEN 1 ELSE 0)
          /\ status # "unknown" => (lastRet' = RetStatus(status) /\ status' = status)
          /\ (lastOp.op = "check" /\ lastRet \in {RetStatus("sat"), RetStatus("unsat")})
                => (lastSent' = <<>> /\ lastRet' = lastRet)]_vars

\* A check() answered from the cache.
C2_Witness ==
    /\ lastOp.op = "check"
    /\ lastSent = <<>>
    /\ lastRet = RetStatus("sat")
    /\ constraints # <<>>

\* C3: every add() call appends its constraint as the last element of the
\* constraint list, sends it to the solver as an assert command, and sets
\* the status to "unknown".
C3_AddAppends ==
    [][lastOp'.op = "add" =>
          /\ constraints' = Append(constraints, lastOp'.con)
          /\ lastSent' = <<Cmd("assert", "", lastOp'.con)>>
          /\ status' = "unknown"]_vars

\* C4: mkBitVec, mkBool and mkArray called with a name that is already in
\* the declaration map return the symbol the map holds, send nothing to the
\* solver, and change neither the map nor the identifier counter.
C4_ReuseReturnsCached ==
    [][(lastOp'.op \in {"mkBitVec", "mkBool", "mkArray"}
            /\ lastOp'.name \in DOMAIN declarations) =>
          /\ lastRet' = RetSym(declarations[lastOp'.name])
          /\ lastSent' = <<>>
          /\ declarations' = declarations
          /\ sid' = sid]_vars

\* C5: getallvalues(x, maxcnt), called with n >= 1 feasible values of x
\* under the current constraints, returns a list holding exactly those n
\* values, each once, when n <= maxcnt, and raises when n > maxcnt.
C5_AllValuesExact ==
    (lastOp.op = "getallvalues" /\ lastOp.feas # {}) =>
        IF Cardinality(lastOp.feas) <= lastOp.n
        THEN /\ lastRet.kind = "list"
             /\ Range(lastRet.vals) = lastOp.feas
             /\ Len(lastRet.vals) = Cardinality(lastOp.feas)
        ELSE lastRet.kind = "raise"

\* C6: reset(full=False) keeps the declaration map and the constraint list
\* and replays them to a cleared solver, which afterwards holds exactly
\* those declarations and assertions; reset(full=True) clears the counter,
\* the stack, the map and the list on a restarted solver; both leave the
\* status "unknown".
C6_Reset ==
    [][lastOp'.op = "reset" =>
          /\ status' = "unknown"
          /\ IF lastOp'.name = "soft"
             THEN /\ declarations' = declarations
                  /\ constraints' = constraints
                  /\ proc'.scopes = <<[decls |-> DOMAIN declarations,
                                       asserts |-> constraints]>>
             ELSE /\ sid' = 0
                  /\ stack' = <<>>
                  /\ declarations' = EmptyMap
                  /\ constraints' = <<>>
                  /\ proc' = NewProc]_vars

\* A reset(full=False) of a supervisor holding declarations, constraints
\* and an open push().
C6_Witness ==
    /\ lastOp.op = "reset"
    /\ lastOp.name = "soft"
    /\ constraints # <<>>
    /\ stack # <<>>
    /\ Asserted(proc) = constraints

(***************************************************************************)
(* Properties of the translator.                                           *)
(***************************************************************************)
\* The version of a base name; a name never used is at version 0.
Ver(m, n) == IF n \in DOMAIN m THEN m[n] ELSE 0

Aliased(o) == o.name \in DOMAIN ArchAliasMapper(arch)

BaseOf(o) == IF Aliased(o) THEN ArchAliasMapper(arch)[o.name][1] ELSE o.name

OffsetOf(o) == IF Aliased(o) THEN ArchAliasMapper(arch)[o.name][2] ELSE 0

BaseSize(o) == IF Aliased(o) THEN ArchRegsSize(arch)[BaseOf(o)] ELSE o.size

\* The expression that names operand o at version k of its base.
NamedAt(o, k) ==
    IF Aliased(o)
    THEN extract(BitVecE(BaseSize(o), VarName(BaseOf(o), k)), OffsetOf(o), o.size)
    ELSE BitVecE(o.size, VarName(o.name, k))

Translated == trLast.instr.mn # "" /\ trLast.native = "" /\ ~trLast.raised

\* The mnemonics whose third operand is a destination.
HasRegDst(i) ==
    /\ i.mn \in {"ADD", "SUB", "MUL", "DIV", "SDIV", "MOD", "SMOD", "BSH",
                "LDM", "STR", "UNDEF"}
    /\ i.o3.kind = "reg"

\* The source side of the assertions of the last translation.
SrcSide ==
    LET i == trLast.instr
        x == trLast.exprs
    IN  CASE i.mn \in {"ADD", "SUB", "MUL", "DIV", "SDIV", "MOD", "SMOD", "BSH"} ->
                {x[1].args[2]}
          [] i.mn = "STR" -> {IF i.o1.size < i.o3.size THEN x[1].args[2] ELSE x[1].args[1]}
          [] i.mn = "LDM" -> {x[j].args[1] : j \in 1..(Len(x) - Len(trLast.parent))}
          [] OTHER -> {}

\* The destination side of the assertions of the last translation.
DstSide ==
    LET i == trLast.instr
        x == trLast.exprs
    IN  CASE i.mn \in {"ADD", "SUB", "MUL", "DIV", "SDIV", "MOD", "SMOD", "BSH"} ->
                {x[1].args[1]}
          [] i.mn = "STR" -> {IF i.o1.size < i.o3.size THEN x[1].args[1] ELSE x[1].args[2]}
          [] i.mn = "LDM" -> {x[j].args[2] : j \in 1..(Len(x) - Len(trLast.parent))}
          [] OTHER -> {}

SrcRegs == {o \in {trLast.instr.o1, trLast.instr.o2} : o.kind = "reg"}

\* C7: translating an instruction with a register destination raises the
\* version of the destination's base by exactly one and names the
\* destination with the new version; every source is named with the version
\* that was current before, also when it is the destination register; no
\* version ever decreases and no other version changes.
C7_SsaVersions ==
    Translated =>
        LET i == trLast.instr
            b == BaseOf(i.o3)
        IN  /\ HasRegDst(i) =>
                /\ Ver(var_name_mappers, b) = Ver(trLast.vnm0, b) + 1
                /\ UNION {VarsOf(e) : e \in DstSide} = {VarName(b, Ver(trLast.vnm0, b) + 1)}
            /\ UNION {VarsOf(e) : e \in SrcSide}
                 \subseteq {VarName(BaseOf(o), Ver(trLast.vnm0, BaseOf(o))) : o \in SrcRegs}
            /\ \A n \in DOMAIN var_name_mappers :
                /\ Ver(var_name_mappers, n) >= Ver(trLast.vnm0, n)
                /\ (~HasRegDst(i) \/ n # b) => Ver(var_name_mappers, n) = Ver(trLast.vnm0, n)

\* The bits [start, start + size) an emitted equality covers.
RangeOf(c) == {c.args[1].val + k : k \in 0..(c.args[1].size - 1)}

\* C8: for a destination that is a sub-register at (base, offset,
\* sub_width) of a base of width W, the emitted equalities between the new
\* and the previous version of the base cover exactly the bits outside
\* [offset, offset + sub_width): two ranges when 0 < offset < W - sub_width,
\* and one non-empty range when the sub-register lies at the low or at the
\* high end of the base.
C8_UntouchedBits ==
    (Translated /\ trLast.instr.mn \in {"ADD", "SUB", "MUL", "LDM", "STR"}
        /\ Aliased(trLast.instr.o3)) =>
        LET o == trLast.instr.o3
            W == BaseSize(o)
            new == BitVecE(W, VarName(BaseOf(o), Ver(trLast.vnm0, BaseOf(o)) + 1))
            old == BitVecE(W, VarName(BaseOf(o), Ver(trLast.vnm0, BaseOf(o))))
            p == trLast.parent
        IN  /\ \A j \in 1..Len(p) :
                /\ p[j].args[1].size >= 1
                /\ p[j] = EqE(extract(new, p[j].args[1].val, p[j].args[1].size),
                              extract(old, p[j].args[1].val, p[j].args[1].size))
            /\ UNION {RangeOf(p[j]) : j \in 1..Len(p)}
                 = (0..(W - 1)) \ (OffsetOf(o)..(OffsetOf(o) + o.size - 1))
            /\ Len(p) = IF 0 < OffsetOf(o) /\ OffsetOf(o) < W - o.size THEN 2 ELSE 1

\* The values given to the variables when an assertion is evaluated.
Samples(w) == {Zeros(w), Bits(1, w), Bits(2, w), Ones(w), Bits(197121, w)}

Envs(names) ==
    {f \in [names -> UNION {Samples(w) : w \in {16, 32}}] :
        \A n \in names : Len(f[n]) = tdecls[n].size}

\* The value of a source operand of the last translation.
OpVal(o, env) ==
    IF o.kind = "imm" THEN Bits(o.imm, o.size)
    ELSE LET v == env[VarName(BaseOf(o), Ver(trLast.vnm0, BaseOf(o)))]
         IN  IF Aliased(o) THEN BvExtract(v, OffsetOf(o), o.size) ELSE v

SrcVarNames(ops) ==
    {VarName(BaseOf(o), Ver(trLast.vnm0, BaseOf(o))) : o \in {q \in ops : q.kind = "reg"}}

RECURSIVE ArrayBase(_)
ArrayBase(e) == IF e.op = "store" THEN ArrayBase(e.args[1]) ELSE e

\* What memory holds at address p after the bytes of src, least significant
\* first, went to addr, addr + 1, ...
StoredByte(p, src, addr) ==
    LET hit == {k \in 0..((Len(src) \div 8) - 1) : p = BvAdd(addr, Bits(k, Len(addr)))}
    IN  IF hit = {} THEN MemInit(p) ELSE BvExtract(src, 8 * Max(hit), 8)

Probes(addr, n) ==
    {BvAdd(addr, Bits(k, Len(addr))) : k \in 0..n} \cup {BvSub(addr, Bits(1, Len(addr)))}

\* C9: translating STM(src, _, addr) with src of width w raises the memory
\* version by exactly one and asserts that the new memory equals the old one
\* with byte i of src stored at addr + i for every i in 0..w/8-1 and
\* unchanged elsewhere; no register version changes; and an LDM reads from
\* the memory of the current version.
C9_StoreLittleEndian ==
    /\ (Translated /\ trLast.instr.mn = "STM") =>
          LET i == trLast.instr
              x == trLast.exprs
          IN  /\ mem_instance = trLast.mem0 + 1
              /\ mem_curr = MemName(mem_instance)
              /\ Len(x) = 1
              /\ x[1].args[1] = BitVecArrayE(AddressSize, MemName(trLast.mem0 + 1))
              /\ ArrayBase(x[1].args[2]) = BitVecArrayE(AddressSize, MemName(trLast.mem0))
              /\ \A env \in Envs(SrcVarNames({i.o1, i.o3})) :
                    \A p \in Probes(OpVal(i.o3, env), i.o1.size \div 8) :
                        SelectV(EvalArr(x[1].args[2], env), p)
                            = StoredByte(p, OpVal(i.o1, env), OpVal(i.o3, env))
              /\ \A n \in DOMAIN var_name_mappers :
                    Ver(var_name_mappers, n) = Ver(trLast.vnm0, n)
    /\ (Translated /\ trLast.instr.mn = "LDM") =>
          \A e \in SrcSide : e.args[1] = BitVecArrayE(AddressSize, MemName(mem_instance))

\* A four-byte store followed by nothing else: memory is at version 1.
C9_Witness ==
    /\ Translated
    /\ trLast.instr.mn = "STM"
    /\ trLast.instr.o1.size = 32
    /\ trLast.instr.o3.kind = "reg"
    /\ mem_instance = 1

ArithOf(mn, x, y) ==
    CASE mn = "ADD" -> BvAdd(x, y)
      [] mn = "SUB" -> BvSub(x, y)
      [] mn = "MUL" -> BvMul(x, y)

\* What ADD, SUB and MUL write for inputs x and y of width w1 into a
\* destination of width w3.
ExpectedArith(mn, x, y, w1, w3) ==
    IF w3 > w1 THEN ArithOf(mn, BvZeroExtend(x, w3), BvZeroExtend(y, w3))
    ELSE IF w3 < w1 THEN BvExtract(ArithOf(mn, x, y), 0, w3)
    ELSE ArithOf(mn, x, y)

\* C10: for ADD, SUB and MUL with w1 = w2 the value asserted for the
\* destination is the operation on both inputs zero-extended to w3 when
\* w3 > w1, the low w3 bits of the w1-bit result when w3 < w1, and the
\* w1-bit result when w3 = w1; and the IR lifted from x86 "add r1, r2"
\* makes the new r1 equal to (r1 + r2) mod 2^32 and leaves r2 as it was.
C10_ArithWidths ==
    /\ (Translated /\ trLast.instr.mn \in {"ADD", "SUB", "MUL"}) =>
          LET i == trLast.instr
              x == trLast.exprs[1]
          IN  /\ i.o1.size = i.o2.size
              /\ x.args[1] = NamedAt(i.o3, Ver(trLast.vnm0, BaseOf(i.o3)) + 1)
              /\ \A env \in Envs(SrcVarNames({i.o1, i.o2})) :
                    Eval(x.args[2], env)
                        = ExpectedArith(i.mn, OpVal(i.o1, env), OpVal(i.o2, env),
                                        i.o1.size, i.o3.size)
    /\ (trLast.native = "add" /\ ~trLast.raised) =>
          LET i == trLast.instr
              x == trLast.exprs
              r1 == VarName(i.o1.name, Ver(trLast.vnm0, i.o1.name))
              r2 == VarName(i.o2.name, Ver(trLast.vnm0, i.o2.name))
              sum(env) == Eval(x[1].args[2], env)
              new(env) == Eval(x[2].args[1], Put(env, x[1].args[1].name, sum(env)))
          IN  /\ Len(x) = 2
              /\ x[2].args[2] = BitVecE(32, VarName(i.o1.name, Ver(trLast.vnm0, i.o1.name) + 1))
              /\ \A env \in Envs({r1, r2}) : new(env) = BvAdd(env[r1], env[r2])
              /\ ToInt(new((r1 :> Bits(1, 32)) @@ (r2 :> Bits(2, 32)))) = 3
              /\ Ver(var_name_mappers, i.o1.name) = Ver(trLast.vnm0, i.o1.name) + 1
              /\ Ver(var_name_mappers, i.o2.name) = Ver(trLast.vnm0, i.o2.name)

\* The lifted "add eax, ebx", whose ADD widens 32-bit inputs to 64 bits,
\* translated after eax was written once before.
C10_Witness ==
    /\ trLast.native = "add"
    /\ ~trLast.raised
    /\ trLast.instr.o1.name = "eax"
    /\ var_name_mappers["eax"] = 2

\* The operator each division mnemonic asserts.
DivOp(mn) ==
    CASE mn = "DIV" -> "bvudiv"
      [] mn = "SDIV" -> "bvsdiv"
      [] mn = "MOD" -> "bvurem"
      [] mn = "SMOD" -> "bvsmod"

\* C11: DIV, MOD, SDIV and SMOD are translated exactly when the three
\* operand widths are equal and are rejected for every other combination of
\* widths; an accepted instruction asserts dst = op1 <operator> op2 on the
\* operands as they are named, followed by nothing but the equalities for
\* the untouched bits of the destination's base: no assertion constrains
\* the divisor.
C11_DivWidths ==
    (trLast.native = "" /\ trLast.instr.mn \in DivMnemonics) =>
        LET i == trLast.instr
            src(o) == IF o.kind = "imm" THEN ConstantE(o.size, o.imm)
                      ELSE NamedAt(o, Ver(trLast.vnm0, BaseOf(o)))
        IN  /\ ~trLast.raised <=> (i.o1.size = i.o2.size /\ i.o2.size = i.o3.size)
            /\ ~trLast.raised =>
                /\ trLast.exprs[1]
                     = EqE(NamedAt(i.o3, Ver(trLast.vnm0, BaseOf(i.o3)) + 1),
                           BinE(DivOp(i.mn), src(i.o1), src(i.o2)))
                /\ trLast.exprs = <<trLast.exprs[1]>> \o trLast.parent

\* The values given to 16-bit registers when a shift is evaluated: the low
\* and the high byte hold counts of either sign and of every size.
ShiftSamples ==
    {Bits(v, 16) : v \in {0, 1, 513, 1942, 2303, 32933, 63743, 64918, 65281, 65535}}

ShiftEnvs(names) ==
    {f \in [names -> {s \o z : s \in ShiftSamples, z \in {<<>>, Bits(43981, 16)}}] :
        \A n \in names : Len(f[n]) = tdecls[n].size}

\* The signed number a vector of at most 16 bits stands for.
Signed(y) == ToInt(y) - (IF y[Len(y)] = 1 THEN Pow2(Len(y)) ELSE 0)

\* x moved by s places: to the left for s >= 0, to the right, filling with
\* zeros, for s < 0.
Shifted(x, s) ==
    [j \in 1..Len(x) |-> IF j - s >= 1 /\ j - s <= Len(x) THEN x[j - s] ELSE 0]

\* What BSH writes for inputs x and y of width w1 into a destination of
\* width w3.
ExpectedBsh(x, y, w1, w3) ==
    IF w3 > w1 THEN Shifted(BvZeroExtend(x, w3), Signed(y))
    ELSE IF w3 < w1 THEN BvExtract(Shifted(x, Signed(y)), 0, w3)
    ELSE Shifted(x, Signed(y))

\* C12: for BSH with op1 and op2 of width w1 and a destination of width
\* w3, the value asserted for the destination is op1 shifted left by op2
\* when op2 read as a signed w1-bit number is non-negative and op1 shifted
\* right by -op2, filling with zeros, when it is negative, computed on op1
\* zero-extended to w3 when w3 > w1 and cut to the low w3 bits when
\* w3 < w1; one-bit operands included.
C12_BshShift ==
    (Translated /\ trLast.instr.mn = "BSH") =>
        LET i == trLast.instr
            x == trLast.exprs[1]
        IN  /\ x.args[1] = NamedAt(i.o3, Ver(trLast.vnm0, BaseOf(i.o3)) + 1)
            /\ \A env \in ShiftEnvs(SrcVarNames({i.o1, i.o2})) :
                  Eval(x.args[2], env)
                      = ExpectedBsh(OpVal(i.o1, env), OpVal(i.o2, env), i.o1.size, i.o3.size)

\* A shift of al by the count in ah into the wider ax.
C12_Witness ==
    /\ Translated
    /\ trLast.instr.mn = "BSH"
    /\ trLast.instr.o2.kind = "reg"
    /\ trLast.instr.o3.size > trLast.instr.o1.size

\* The SMT variable that stands for register operand o now.
CurrentVar(o) == VarName(BaseOf(o), Ver(var_name_mappers, BaseOf(o)))

\* C13: after UNDEF(_, _, dst) has been translated, the current SMT
\* variable of dst occurs in no assertion returned before: dst is not
\* constrained by earlier instructions.
C13_UndefFresh ==
    (Translated /\ trLast.instr.mn = "UNDEF" /\ trLast.instr.o3.kind = "reg") =>
        CurrentVar(trLast.instr.o3) \notin emitted

\* No register version and no memory version differs from what it was
\* before the last translation.
VersionsKept ==
    /\ \A n \in DOMAIN var_name_mappers \cup DOMAIN trLast.vnm0 :
          Ver(var_name_mappers, n) = Ver(trLast.vnm0, n)
    /\ mem_instance = trLast.mem0
    /\ mem_curr = MemName(trLast.mem0)

\* C14: translating JCC, RET, UNDEF or NOP returns an empty list of
\* assertions and changes no register version and not the memory version;
\* translating UNKN raises and changes no version either.
C14_NoEffect ==
    /\ (trLast.native = "" /\ trLast.instr.mn \in {"JCC", "RET", "UNDEF", "NOP"}) =>
          /\ ~trLast.raised
          /\ trLast.exprs = <<>>
          /\ VersionsKept
    /\ (trLast.native = "" /\ trLast.instr.mn = "UNKN") =>
          /\ trLast.raised
          /\ VersionsKept

\* An UNDEF of a register that was written before and after a store.
C14_Witness ==
    /\ trLast.instr.mn = "UNDEF"
    /\ Ver(var_name_mappers, trLast.instr.o3.name) >= 1
    /\ mem_instance = 1

(***************************************************************************)
(* Properties of the emulator.                                             *)
(***************************************************************************)
RunningLoop == run # "idle" /\ container = TestTranslate(LoopProgram)

Faults == {"InvalidAddress", "ZeroDivision", "Unknown"}

\* C15: the lifted loop program, executed from its first IR address, ends
\* without a fault with eax = 10 and ebx = 0, and each time its jne is
\* executed the jump is taken exactly when ebx is nonzero.
C15_LoopTerminates ==
    /\ [](RunningLoop => /\ run \notin Faults
                         /\ emLast.instr.mn = "JCC" =>
                               (emLast.taken <=> ~IsZero(ReadOperand(registers, Reg("ebx", 32))))
                         /\ run = "done" =>
                               /\ ReadOperand(registers, Reg("eax", 32)) = Bits(LoopCount, 32)
                               /\ ReadOperand(registers, Reg("ebx", 32)) = Zeros(32))
    /\ (RunningLoop ~> run = "done")

\* The loop has ended after its jne fell through.
C15_Witness ==
    /\ RunningLoop
    /\ run = "done"
    /\ emLast.instr.mn = "JCC"
    /\ ~emLast.taken
    /\ ReadOperand(registers, Reg("eax", 32)) = Bits(10, 32)

\* The bits of the base register a write to the operand covers.
Covered(o) ==
    IF o.name \in DOMAIN EmuAliasMapper
    THEN (EmuAliasMapper[o.name][2] + 1)..(EmuAliasMapper[o.name][2] + o.size)
    ELSE 1..o.size

EmuBaseOf(o) == IF o.name \in DOMAIN EmuAliasMapper THEN EmuAliasMapper[o.name][1] ELSE o.name

Executed == emLast' # emLast /\ run' \notin Faults

\* C16: an instruction that writes a sub-register leaves every bit of the
\* base register outside [offset, offset + width) as it was, and a STR puts
\* the low bits of its source inside that range; the three moves of
\* test_mov, run from eax = 0xffffffff, end with eax = 0xdead3412.
C16_SubRegisterWrite ==
    /\ [][(Executed /\ emLast'.instr.o3.name \in DOMAIN EmuAliasMapper) =>
            /\ \A k \in (1..EmuBaseSize) \ Covered(emLast'.instr.o3) :
                  ReadBase(registers', EmuBaseOf(emLast'.instr.o3), EmuBaseSize)[k]
                     = ReadBase(registers, EmuBaseOf(emLast'.instr.o3), EmuBaseSize)[k]
            /\ emLast'.instr.mn = "STR" =>
                  \A k \in Covered(emLast'.instr.o3) :
                     ReadBase(registers', EmuBaseOf(emLast'.instr.o3), EmuBaseSize)[k]
                        = Fit(ReadOperand(registers, emLast'.instr.o1), emLast'.instr.o3.size)
                             [k - EmuAliasMapper[emLast'.instr.o3.name][2]]]_vars
    /\ []((run = "done" /\ container = TranslateList(TestMov, DeadBeef)) =>
            registers["eax"] = Word(57005, 13330))

\* test_mov has run to its end: the last write went to ah, over bits of
\* eax that the earlier writes had set.
C16_Witness ==
    /\ run = "done"
    /\ container = TranslateList(TestMov, DeadBeef)
    /\ emLast.instr.o3 = Reg("ah", 8)
    /\ emLast.before["eax"] = Word(57005, 48658)
    /\ registers["eax"] = Word(57005, 13330)

\* C17: executing DIV, MOD, SDIV or SMOD with a zero divisor ends execute
\* and execute_lite with the ZeroDivision fault and writes no result, for
\* an instruction given directly and for those lifted from div; with a
\* nonzero divisor the fault is not raised.
C17_ZeroDivision ==
    [][(emLast' # emLast /\ emLast'.instr.mn \in DivMnemonics) =>
          IF IsZero(ReadOperand(registers, emLast'.instr.o2))
          THEN run' = "ZeroDivision" /\ registers' = registers
          ELSE run' \notin Faults]_vars

\* The DIV lifted from div ebx has faulted inside execute.
C17_Witness ==
    /\ run = "ZeroDivision"
    /\ container = TestTranslate(DivProgram)
    /\ emLast.instr.mn = "DIV"
    /\ SubIndexOf(emLast.address) = 5

\* The addresses of the instructions a container holds.
InstructionAddresses(cont) ==
    UNION {{cont[n].instrs[k].address : k \in 1..Len(cont[n].instrs)} : n \in 1..Len(cont)}

\* C18: when the IR program counter of execute is not the address of an
\* instruction of the container, be it the start address or the target of
\* a taken JCC, the call ends with the InvalidAddress fault and executes
\* nothing; otherwise it does not raise that fault.
C18_InvalidAddress ==
    [][(run = "execute" =>
            IF ip \in InstructionAddresses(container)
            THEN run' # "InvalidAddress"
            ELSE (run' = "InvalidAddress" /\ registers' = registers /\ emLast' = emLast))
       /\ ((run' = "execute" /\ emLast'.instr.mn = "JCC" /\ emLast'.taken) =>
              ip' = ReadOperand(registers, emLast'.instr.o3))]_vars

\* The jump lifted from jmp eax, with eax = 0xffffffff, was taken and the
\* call has ended with InvalidAddress.
C18_Witness ==
    /\ run = "InvalidAddress"
    /\ container = TestTranslate(JmpProgram)
    /\ emLast.instr.mn = "JCC"
    /\ emLast.taken
    /\ ip = IrAddress(Ones(32), 0)

\* The IR instruction last executed, as the handlers are given it.
LastInstruction == [instr |-> emLast'.instr, address |-> emLast'.address]

\* A native instruction is entered at its first IR instruction and left
\* when the instruction to come is the first of a native instruction, or
\* when there is none.
EntersNative == SubIndexOf(emLast'.address) = 0

LeavesNative == run' \notin Faults /\ (ip' = <<>> \/ SubIndexOf(ip') = 0)

CallsOf(which) == {k \in 1..Len(calls) : calls[k].which = which}

LitBitsFrom(digits, per, k) ==
    [i \in 1..(per * k) |->
        Bits(digits[k - ((i - 1) \div per)], per)[((i - 1) % per) + 1]]

LitBits(t) == LitBitsFrom(Digits(t), IF Prefix(t) = "#x" THEN 4 ELSE 1, Len(Digits(t)))

IsLiteral(e) == TypeOf(e) = "BitVec" /\ Prefix(ValueOf(e)) \in {"#x", "#b"} /\ ChildrenOf(e) = <<>>

\* The literal constants an expression holds, down to its second level.
Constants(e) ==
    LET sub == {ChildrenOf(e)[i] : i \in DOMAIN ChildrenOf(e)}
    IN  {c \in sub \cup UNION {{ChildrenOf(d)[j] : j \in DOMAIN ChildrenOf(d)} : d \in sub} :
            IsLiteral(c)}

\* The last step combined a vector with a literal, or stored a literal.
Combined ==
    /\ "args" \in DOMAIN lastOp
    /\ \/ lastOp.op = "store"
       \/ TypeOf(lastOp.args[1]) # TypeOf(lastOp.args[2])

CombinedVector == IF TypeOf(lastOp.args[1]) = "BitVec" THEN lastOp.args[1] ELSE lastOp.args[2]

CombinedLiteral ==
    IF lastOp.op = "store" THEN NumberOf(lastOp.args[3])
    ELSE IF TypeOf(lastOp.args[1]) = "int" THEN NumberOf(lastOp.args[1]) ELSE NumberOf(lastOp.args[2])

RequiredWidth == IF lastOp.op = "store" THEN 8 ELSE SizeOf(CombinedVector)

Comparisons == {"<", "<=", "==", "!=", ">", ">=", "UGT", "UGE", "ULT", "ULE"}

\* The literal is in the expression as a constant of the required width,
\* equal to the literal modulo 2^width.
Lifted(v, w, e) ==
    \E c \in (IF lastOp.op = "store" THEN {ChildrenOf(e)[3]} ELSE Constants(e)) :
        /\ IsLiteral(c)
        /\ SizeOf(c) = w
        /\ Len(LitBits(ValueOf(c))) = w
        /\ LitBits(ValueOf(c)) = MaskBits(v, w)

\* C20: combining a vector of width w with an integer literal on either
\* side through any operator or named unsigned form, or storing an integer
\* literal into a byte array, gives an expression, never an exception; the
\* result keeps the width, and the literal is in it as a constant of the
\* required width (w, or 8 for an array value) equal to the literal modulo
\* 2^width.
C20_LiteralLifted ==
    Combined =>
        /\ TypeOf(lastRet) # "raise"
        /\ TypeOf(lastRet) = (IF lastOp.op = "store" THEN "Array_"
                         ELSE IF lastOp.op \in Comparisons THEN "Bool" ELSE "BitVec")
        /\ (TypeOf(lastRet) = "BitVec" => SizeOf(lastRet) = SizeOf(CombinedVector))
        /\ (TypeOf(lastRet) = "Array_" => SizeOf(lastRet) = SizeOf(lastOp.args[1]))
        /\ Lifted(CombinedLiteral, RequiredWidth, lastRet)

(***************************************************************************)
(* Properties of the control-transfer lifter.                              *)
(***************************************************************************)
\* The native instruction whose lifted sequence holds the IR address.
AsmOf(address) ==
    container[CHOOSE n \in 1..Len(container) :
                container[n].address = IrAddress(NativeOf(address), 0)].asm

NativeInstr == IF emLast.address = <<>> THEN Asm("", <<>>, <<>>, 0) ELSE AsmOf(emLast.address)

ControlMnemonics ==
    {"jmp", "jne", "jecxz", "call", "ret", "loop", "loope", "loopz", "loopne", "loopnz"}

ConditionalMnemonics == ControlMnemonics \ {"jmp", "call", "ret"}

\* The native address the instruction transfers to, read on entry: the
\* operand's value, or for ret the word at the stack pointer.
TargetOnEntry(asm) ==
    IF asm.mnemonic = "ret"
    THEN ReadMemory(emLast.entryMemory, ReadOperand(emLast.entry, Sp), Sp.size)
    ELSE ReadOperand(emLast.entry, asm.operands[1])

\* The last instruction executed is a JCC of a control-transfer instruction
\* to a native address, not to a label of the builder.
NativeJcc ==
    /\ emLast.instr.mn = "JCC"
    /\ NativeInstr.mnemonic \in ControlMnemonics
    /\ emLast.instr.o3.name # "keep_looping"

IsExit ==
    /\ NativeInstr.mnemonic \in {"loope", "loopz", "loopne", "loopnz"}
    /\ emLast.instr.o3 = ExitAddress(NativeInstr)

\* C21: every JCC the control-transfer lifter emits for a transfer to a
\* native address has a target operand 8 bits wider than the address
\* operand, whose value is the native address shifted left by 8 with no
\* address bit lost: the low 8 bits are zero and the bits above them are
\* the whole address.
C21_TargetEncoding ==
    NativeJcc =>
        LET native == IF IsExit THEN EndAddress(NativeInstr) ELSE TargetOnEntry(NativeInstr)
        IN  /\ emLast.instr.o3.size = Len(native) + 8
            /\ ReadOperand(emLast.before, emLast.instr.o3) = Zeros(8) \o native

\* ret with the return address 0xdeadbeef on the stack has jumped.
C21_Witness ==
    /\ NativeJcc
    /\ NativeInstr.mnemonic = "ret"
    /\ emLast.taken
    /\ ip = IrAddress(DeadBeef, 0)

\* The sequence holds an unconditional JCC to the address of the following
\* native instruction, (address + size) << 8.
HasFallThrough(seq) ==
    \E k \in 1..Len(seq.instrs) :
        /\ seq.instrs[k].instr.mn = "JCC"
        /\ seq.instrs[k].instr.o1.kind = "imm"
        /\ ~IsZero(seq.instrs[k].instr.o1.imm)
        /\ seq.instrs[k].instr.o3 = ExitAddress(seq.asm)

\* C22: the IR lifted for every conditional control instruction (the jcc
\* family, jecxz, loop, loope/loopz, loopne/loopnz) contains, for the case
\* that the branch is not taken, an unconditional JCC to the address of the
\* following native instruction, so that control never leaves the sequence
\* by running off its end.
C22_FallThrough ==
    /\ \A n \in 1..Len(container) :
          (run # "idle" /\ container[n].asm.mnemonic \in ConditionalMnemonics)
             => HasFallThrough(container[n])
    /\ (emLast.address # <<>> /\ NativeInstr.mnemonic \in ConditionalMnemonics
            /\ ip # <<>> /\ NativeOf(ip) # NativeOf(emLast.address))
          => (emLast.instr.mn = "JCC" /\ emLast.taken)

\* The builder's temporaries.
Temporaries == {"t" \o ToString(k) : k \in 0..8}

\* The last instruction executed belongs to the sequence lifted for one of
\* the mnemonics.
Running(mnemonics) == emLast.address # <<>> /\ NativeInstr.mnemonic \in mnemonics

\* No register but the given ones and the temporaries differs from its
\* value on entry.
OnlyWritten(names) ==
    /\ \A n \in DOMAIN emLast.entry \ names : registers[n] = emLast.entry[n]
    /\ DOMAIN registers \ DOMAIN emLast.entry \subseteq Temporaries

\* C23: the IR lifted for CALL reads the target with the stack pointer's
\* value on entry, then decrements the stack pointer by the word size, then
\* stores address + size at the decremented stack pointer, and only then
\* jumps unconditionally to target << 8; no other register and no other
\* memory location is written.
C23_Call ==
    Running({"call"}) =>
        LET sp0 == emLast.entry["esp"]
            sp1 == BvSub(sp0, Ws.imm)
            stored == WriteMemory(emLast.entryMemory, sp1, EndAddress(NativeInstr))
        IN  /\ OnlyWritten({"esp"})
            /\ registers["esp"] \in {sp0, sp1}
            /\ memory \in {emLast.entryMemory, stored}
            /\ (memory # emLast.entryMemory => registers["esp"] = sp1)
            /\ (emLast.instr.mn = "JCC") =>
                  /\ emLast.taken
                  /\ ip = Zeros(8) \o TargetOnEntry(NativeInstr)
                  /\ registers["esp"] = sp1
                  /\ memory = stored

\* call esp has jumped to the stack pointer's value on entry.
C23_Witness ==
    /\ Running({"call"})
    /\ NativeInstr.operands[1] = Sp
    /\ emLast.instr.mn = "JCC"
    /\ ip = Zeros(8) \o StackTop
    /\ ReadMemory(memory, BvSub(StackTop, Ws.imm), 32) = EndAddress(NativeInstr)

\* The pop count of ret: its operand, zero when there is none.
PopCount(asm) == IF Len(asm.operands) > 0 THEN Fit(asm.operands[1].imm, Sp.size)
                 ELSE Zeros(Sp.size)

\* C24: the IR lifted for RET [n] loads the return address from the stack
\* pointer's value on entry, leaves the stack pointer at its entry value
\* plus the word size plus n modulo 2^width (n = 0 without operand), and
\* ends with an unconditional JCC to the loaded address shifted left by 8.
C24_Ret ==
    (Running({"ret"}) /\ emLast.instr.mn = "JCC") =>
        /\ emLast.taken
        /\ ip = Zeros(8) \o ReadMemory(emLast.entryMemory, emLast.entry["esp"], Sp.size)
        /\ registers["esp"] = BvAdd(BvAdd(emLast.entry["esp"], Ws.imm), PopCount(NativeInstr))
        /\ OnlyWritten({"esp"})
        /\ memory = emLast.entryMemory
        /\ SubIndexOf(emLast.address) = Len(TranslateRetX86(NativeInstr)) - 1

\* ret 0xffff has returned to 0xdeadbeef.
C24_Witness ==
    /\ Running({"ret"})
    /\ emLast.instr.mn = "JCC"
    /\ NativeInstr.operands = <<ImmB(Ones(16))>>
    /\ ip = IrAddress(DeadBeef, 0)
    /\ registers["esp"] = BvAdd(StackTop, Bits(65539, 32))

LoopMnemonics == {"loop", "loope", "loopz", "loopne", "loopnz"}

\* Control has left the sequence of the instruction executed last.
Left == ip # <<>> /\ NativeOf(ip) # NativeOf(emLast.address)

\* The branch condition of the loop family, on the decremented counter and
\* the zero flag on entry.
KeepsLooping(asm, counter, zf) ==
    /\ ~IsZero(counter)
    /\ asm.mnemonic \in {"loope", "loopz"} => zf = <<1>>
    /\ asm.mnemonic \in {"loopne", "loopnz"} => zf = <<0>>

\* C25: the IR lifted for LOOPE/LOOPZ decrements the counter exactly once,
\* leaves the flags as they were, and transfers to the loop target exactly
\* when the decremented counter is nonzero and ZF = 1, to the following
\* native instruction otherwise; LOOPNE/LOOPNZ the same with ZF = 0; LOOP
\* branches exactly when the decremented counter is nonzero.
C25_Loops ==
    Running(LoopMnemonics) =>
        LET decremented == BvSub(emLast.entry["ecx"], Bits(1, Counter.size))
        IN  /\ OnlyWritten({"ecx"})
            /\ memory = emLast.entryMemory
            /\ registers["ecx"] \in {emLast.entry["ecx"], decremented}
            /\ Left =>
                  /\ registers["ecx"] = decremented
                  /\ ip = Zeros(8) \o
                            (IF KeepsLooping(NativeInstr, decremented, emLast.entry["zf"])
                             THEN TargetOnEntry(NativeInstr) ELSE EndAddress(NativeInstr))

\* loope with ecx = 2 and ZF = 1 has branched to 0xdeadbeef.
C25_Witness ==
    /\ Running({"loope"})
    /\ Left
    /\ emLast.entry["ecx"] = Bits(2, 32)
    /\ emLast.entry["zf"] = <<1>>
    /\ registers["ecx"] = Bits(1, 32)
    /\ ip = IrAddress(DeadBeef, 0)

(***************************************************************************)
(* _recv at the level of physical lines.  A line is the sequence of its    *)
(* tokens and carries, as history, the number of the reply the solver      *)
(* wrote it for.  The solver writes a reply on one line or breaks it at    *)
(* white space.                                                            *)
(***************************************************************************)
MaxReplies == 3    \* most replies waiting in the pipe

\* line.count(tok)
RECURSIVE Count(_, _)
Count(line, tok) ==
    IF line = <<>> THEN 0
    ELSE (IF Head(line) = tok THEN 1 ELSE 0) + Count(Tail(line), tok)

\* '(error' in line
HasError(line) == \E i \in 1..(Len(line) - 1) : line[i] = "(" /\ line[i + 1] = "error"

\* ''.join(bufl).strip()
RECURSIVE Joined(_)
Joined(bufl) == IF bufl = <<>> THEN <<>> ELSE Head(bufl).text \o Joined(Tail(bufl))

\* A reader that takes the first line for the whole reply.
ReadFirstLine(pipe, bufl, left, right) == [bufl |-> bufl, rest |-> pipe, blocked |-> FALSE]

\* while left != right: read another line.  readline() blocks on an empty
\* pipe.
RECURSIVE ReadBalanced(_, _, _, _)
ReadBalanced(pipe, bufl, left, right) ==
    IF left = right THEN [bufl |-> bufl, rest |-> pipe, blocked |-> FALSE]
    ELSE IF pipe = <<>> THEN [bufl |-> bufl, rest |-> pipe, blocked |-> TRUE]
    ELSE ReadBalanced(Tail(pipe), Append(bufl, Head(pipe)),
                      left + Count(Head(pipe).text, "("),
                      right + Count(Head(pipe).text, ")"))

RetReply(bufl) == [kind |-> "reply", s |-> "", sym |-> NoSym, vals |-> bufl]

\* _recv on a pipe that holds at least one line.
Recv(pipe) ==
    LET first == Head(pipe)
        r == ReadBalanced(Tail(pipe), <<first>>,
                          Count(first.text, "("), Count(first.text, ")"))
    IN  [rest |-> r.rest, blocked |-> r.blocked,
         ret |-> IF HasError(r.bufl[1].text)
                 THEN [Raise("Error in smtlib") EXCEPT !.vals = r.bufl]
                 ELSE RetReply(r.bufl)]

\* The ways the solver lays out its replies.
Layouts ==
    { <<<<"sat">>>>,
      <<<<"unsat">>>>,
      <<<<"(", "(", "x", "#x01", ")", ")">>>>,
      <<<<"(", "(", "x">>, <<"#x01", ")", ")">>>>,
      <<<<"(">>, <<"(", "x", "#x01", ")">>, <<")">>>>,
      <<<<"(", "error", "msg", ")">>>>,
      <<<<"(", "error">>, <<"msg", ")">>>> }

Tagged(layout, k) == [i \in 1..Len(layout) |-> [text |-> layout[i], reply |-> k]]

RECURSIVE Written(_, _)
Written(replies, k) ==
    IF k > Len(replies) THEN <<>> ELSE Tagged(replies[k], k) \o Written(replies, k + 1)

Pipes == UNION {{Written(rs, 1) : rs \in [1..n -> Layouts]} : n \in 1..MaxReplies}

RecvLine ==
    /\ proc.out # <<>>
    /\ LET r == Recv(proc.out)
       IN  /\ ~r.blocked
           /\ proc' = [proc EXCEPT !.out = r.rest]
           /\ lastOp' = Op("_recv", "", NoCon, lastOp.n + 1)
           /\ lastRet' = r.ret
    /\ UNCHANGED <<kind, unknownOk, status, sid, stack, declarations, constraints,
                   arrays, saved, lastSent>>
    /\ UNCHANGED <<trVars, emuVars>>

(***************************************************************************)
(* SpecRecv: _recv called again and again on the replies waiting in the    *)
(* pipe.                                                                   *)
(***************************************************************************)
InitRecv ==
    /\ kind \in {"z3", "cvc4"}
    /\ unknownOk = FALSE
    /\ status = "unknown"
    /\ sid = 0
    /\ stack = <<>>
    /\ declarations = EmptyMap
    /\ constraints = <<>>
    /\ arrays = [n \in {} |-> NoObj]
    /\ proc \in {[NewProc EXCEPT !.out = p] : p \in Pipes}
    /\ saved = <<>>
    /\ lastOp = Op("init", "", NoCon, 0)
    /\ lastRet = RetNone
    /\ lastSent = <<>>
    /\ TranslatorInit("x86_32")
    /\ EmulatorInit

NextRecv == RecvLine

SpecRecv == InitRecv /\ [][NextRecv]_vars

\* The lines the last _recv read.
Bufl == lastRet.vals

BeginsWithError(buf) == Len(buf) >= 2 /\ buf[1] = "(" /\ buf[2] = "error"

Sent(c) == \E i \in 1..Len(lastSent) : lastSent[i].cmd = c

\* C27: getallvalues leaves the identifier counter, the declaration map, the
\* constraint list, the depth of the snapshot stack and the solver's scope
\* depth as they were, whether it returns a list or raises.
C27_Frame ==
    [][lastOp'.op = "getallvalues" =>
          /\ sid' = sid
          /\ declarations' = declarations
          /\ constraints' = constraints
          /\ Len(stack') = Len(stack)
          /\ Len(proc'.scopes) = Len(proc.scopes)]_vars

C27_Witness ==
    /\ lastOp.op = "getallvalues"
    /\ lastRet = Raise("Error in smtlib")
    /\ Sent("push")
    /\ Sent("pop")
    /\ Len(stack) = 1

\* C28: in every state reached by push, pop, add, mk* and reset the solver
\* has as many scopes open as the snapshot stack has entries.
C28_ScopeDepth == Len(proc.scopes) - 1 = Len(stack)

\* What check() returns when it is called in this state.
Reported == {o.ret.s : o \in DoCheck(Cur, unknownOk)}

\* C29: check() returns unsat after add(False), and an add() made while
\* check() returns unsat leaves it returning unsat: adding constraints never
\* turns a constraint set reported unsat into one reported sat.
C29_StickyUnsat ==
    [][/\ (lastOp' = Op("add", "", BoolCon(FALSE), 0) => Reported' = {"unsat"})
       /\ ((Reported = {"unsat"} /\ lastOp'.op = "add") => Reported' = {"unsat"})]_vars

\* The last call returned what it read from the pipe.
ReturnedReply ==
    /\ lastOp.op \in {"check", "getvalue"}
    /\ lastRet.kind \in {"status", "int"}
    /\ Sent("check-sat")

\* C30: a check() or getvalue() that follows reset() returns the reply to
\* the command it sent itself: one reply is written for each command it
\* sends, so the call read its own replies exactly when it leaves the pipe
\* empty.
C30_OwnReply ==
    [][(lastOp.op = "reset" /\ ReturnedReply') => proc'.out = <<>>]_vars

====
